---- MODULE Spec2Model ----
(***************************************************************************)
(* Verification model of the relay-it web client:                          *)
(*   - markAiAdditions, the diff annotator of hooks/useChat                *)
(*   - useSessionNote, the note state manager (debounced autosave)         *)
(*   - useChat, the conversational update coordinator                      *)
(*   - NoteEditor, the expiry of the AI-addition markers                   *)
(*   - SummaryPanel, the composition of useChat and useSessionNote         *)
(*   - MarkdownPreview.renderLines, the list builder of the preview        *)
(*   - MarkdownPreview, the scan for the delimiter lines                   *)
(*   - the annotation blocks of the note text                              *)
(*   - MainLayout, the selection of another session                        *)
(* Strings are sequences of one-character strings.                         *)
(***************************************************************************)
EXTENDS Integers, Sequences, FiniteSets, TLC

\* ------------------------------------------------------------------------
\* Bounds of the model
\* ------------------------------------------------------------------------
MaxOldLen == 3
MaxNewLen == 4
\* useSessionNote: calls of updateContent, calls of append/replace/forceSave
MaxUpdates == 3
MaxImmediate == 2
\* useChat: accepted sends, clock ticks (ms)
MaxSends == 1
MaxNow == 1
\* useChat: rows inserted by other clients of the session
MaxRemote == 1
\* MarkdownPreview: lines of the previewed note
MaxPreviewLines == 4
\* note text: assistant replaces, appends and expiry strips applied to it
MaxMarkOps == 2
\* NoteEditor: renders with a changed note text or onChange
MaxArrivals == 3
\* SummaryPanel: manual edits typed while the panel is shown
MaxEdits == 1
\* MarkdownPreview: lines handed to renderLines
MaxLines == 3
\* MainLayout: selections of another session, edits typed, rows of a session
MaxSwitches == 1
MaxTyped == 1
MaxRows == 3

\* ------------------------------------------------------------------------
\* Strings
\* ------------------------------------------------------------------------
NL == "\n"
SP == " "
Whitespace == {SP, NL}
Alphabet == {"a", "b", SP, NL}

RECURSIVE StrUpTo(_)
StrUpTo(n) ==
    IF n = 0 THEN {<<>>}
    ELSE LET S == StrUpTo(n - 1)
         IN  S \cup {Append(s, c) : s \in {t \in S : Len(t) = n - 1}, c \in Alphabet}

\* String.prototype.trimStart / trimEnd / trim
RECURSIVE TrimStart(_)
TrimStart(s) ==
    IF s # <<>> /\ Head(s) \in Whitespace THEN TrimStart(Tail(s)) ELSE s

RECURSIVE TrimEnd(_)
TrimEnd(s) ==
    IF s # <<>> /\ s[Len(s)] \in Whitespace THEN TrimEnd(SubSeq(s, 1, Len(s) - 1)) ELSE s

Trim(s) == TrimEnd(TrimStart(s))

\* String.prototype.slice(from, to) with 0-based, end-exclusive indices
Slice(s, from, to) == SubSeq(s, from + 1, to)

Min(a, b) == IF a < b THEN a ELSE b

\* ------------------------------------------------------------------------
\* markAiAdditions (diff annotator)
\* ------------------------------------------------------------------------
OpenLine == <<":", ":", ":", "a", "i">>
CloseLine == <<":", ":", ":">>

\* variant: the emptiness test without trim()
OldIsBlank_NoTrim(oldContent) == oldContent = <<>>

\* `!oldContent.trim()`
OldIsBlank(oldContent) == Trim(oldContent) = <<>>

\* the prefix loop: advance while both strings agree
RECURSIVE PrefixScan(_, _, _)
PrefixScan(oldContent, newContent, prefixEnd) ==
    IF /\ prefixEnd < Min(Len(oldContent), Len(newContent))
       /\ oldContent[prefixEnd + 1] = newContent[prefixEnd + 1]
    THEN PrefixScan(oldContent, newContent, prefixEnd + 1)
    ELSE prefixEnd

PrefixEnd(oldContent, newContent) == PrefixScan(oldContent, newContent, 0)

\* variant: the suffix scan not stopped at the prefix boundary
SuffixGuard_WholeString(oldSuffixStart, newSuffixStart, prefixEnd) ==
    oldSuffixStart > 0 /\ newSuffixStart > 0

\* loop condition of the suffix scan
SuffixGuard(oldSuffixStart, newSuffixStart, prefixEnd) ==
    oldSuffixStart > prefixEnd /\ newSuffixStart > prefixEnd

\* the suffix loop: returns newSuffixStart
RECURSIVE SuffixScan(_, _, _, _, _)
SuffixScan(oldContent, newContent, prefixEnd, oldSuffixStart, newSuffixStart) ==
    IF /\ SuffixGuard(oldSuffixStart, newSuffixStart, prefixEnd)
       /\ oldContent[oldSuffixStart] = newContent[newSuffixStart]
    THEN SuffixScan(oldContent, newContent, prefixEnd, oldSuffixStart - 1, newSuffixStart - 1)
    ELSE newSuffixStart

NewSuffixStart(oldContent, newContent) ==
    SuffixScan(oldContent, newContent, PrefixEnd(oldContent, newContent),
               Len(oldContent), Len(newContent))

DiffPrefix(oldContent, newContent) ==
    Slice(newContent, 0, PrefixEnd(oldContent, newContent))

DiffAdded(oldContent, newContent) ==
    Slice(newContent, PrefixEnd(oldContent, newContent), NewSuffixStart(oldContent, newContent))

DiffSuffix(oldContent, newContent) ==
    Slice(newContent, NewSuffixStart(oldContent, newContent), Len(newContent))

\* variant: the added region tested without trim()
HasAddedContent_NoTrim(addedContent) == addedContent # <<>>

\* `addedContent.trim()` is truthy
HasAddedContent(addedContent) == Trim(addedContent) # <<>>

\* variant: the prefix taken as it is
CleanPrefix_AsIs(prefix) == prefix

CleanPrefix(prefix) ==
    IF prefix # <<>> /\ prefix[Len(prefix)] = NL THEN prefix
    ELSE IF prefix # <<>> THEN prefix \o <<NL>> ELSE <<>>

CleanSuffix(suffix) ==
    IF suffix # <<>> /\ Head(suffix) = NL THEN suffix
    ELSE IF suffix # <<>> THEN <<NL>> \o suffix ELSE <<>>

\* .replace(/\n{3,}/g, '\n\n'); run counts the newlines already emitted
\* for the current run
RECURSIVE CollapseFrom(_, _)
CollapseFrom(s, run) ==
    IF s = <<>> THEN <<>>
    ELSE IF Head(s) = NL
         THEN IF run >= 2 THEN CollapseFrom(Tail(s), run)
              ELSE <<NL>> \o CollapseFrom(Tail(s), run + 1)
         ELSE <<Head(s)>> \o CollapseFrom(Tail(s), 0)

\* variant: no collapsing of newline runs
CollapseNewlines_None(s) == s

CollapseNewlines(s) == CollapseFrom(s, 0)

WrapAdded(prefix, addedContent, suffix) ==
    CollapseNewlines(CleanPrefix(prefix) \o <<NL>> \o OpenLine \o <<NL>>
                     \o Trim(addedContent) \o <<NL>> \o CloseLine \o <<NL>>
                     \o CleanSuffix(suffix))

markAiAdditions(oldContent, newContent) ==
    IF OldIsBlank(oldContent) THEN newContent
    ELSE IF HasAddedContent(DiffAdded(oldContent, newContent))
         THEN WrapAdded(DiffPrefix(oldContent, newContent),
                        DiffAdded(oldContent, newContent),
                        DiffSuffix(oldContent, newContent))
         ELSE newContent

\* the example of the specification
HelloWorld == <<"h","e","l","l","o"," ","w","o","r","l","d">>
HelloBraveNewWorld ==
    <<"h","e","l","l","o"," ","b","r","a","v","e"," ","n","e","w"," ","w","o","r","l","d">>

DiffInputs ==
    (StrUpTo(MaxOldLen) \X StrUpTo(MaxNewLen)) \cup {<<HelloWorld, HelloBraveNewWorld>>}

VARIABLES
    oldContent,     \* argument of markAiAdditions
    newContent,     \* argument of markAiAdditions
    diffDone,       \* markAiAdditions has returned
    prefix,         \* local of markAiAdditions
    addedContent,   \* local of markAiAdditions
    suffix,         \* local of markAiAdditions
    annotated       \* return value of markAiAdditions

diffVars == <<oldContent, newContent, diffDone, prefix, addedContent, suffix, annotated>>

VARIABLES
    note,               \* useState note: NoNote or the row id
    content,            \* useState content
    isSaving,           \* useState isSaving
    isNoteLoading,      \* useState isLoading of useSessionNote
    lastSavedContent,   \* useRef lastSavedContent
    saveTimeoutRef,     \* useRef saveTimeoutRef: id of the last timer, 0 = null
    timers,             \* pending setTimeout callbacks of updateContent
    nextTimer,          \* next timer id
    dbNote,             \* row of session_notes for the session: NoRow or its content
    loadPc,             \* position of fetchOrCreateNote
    writes,             \* storage writes in flight, in issue order
    immediateCalls,     \* number of append / replace / forceSave calls made
    writeFailed,        \* history: some storage write has failed
    bursts,             \* history: updateContent calls made with no timer pending
    debounceCalls,      \* history: saveNote calls made by a debounce timer
    forceCancelled,     \* history: timers cancelled by forceSave
    lastUpdate,         \* history: argument of the last updateContent call
    lastDebounced       \* history: argument of the last saveNote call of a timer

noteVars == <<note, content, isSaving, isNoteLoading, lastSavedContent, saveTimeoutRef,
              timers, nextTimer, dbNote, loadPc, writes, immediateCalls, writeFailed,
              bursts, debounceCalls, forceCancelled, lastUpdate, lastDebounced>>

VARIABLES
    messages,           \* useState messages: the visible history
    isLoading,          \* useState isLoading of useChat
    isLoadingHistory,   \* useState isLoadingHistory
    chatDb,             \* rows of chat_messages of the session, in insertion order
    channel,            \* realtime INSERT payloads not yet delivered
    histPc,             \* position of loadMessages
    histData,           \* rows returned by the select of loadMessages
    sendPc,             \* position of sendMessage
    savedMsg,           \* row returned by the insert of saveMessage, NoMsg on error
    sendNo,             \* number of sends accepted
    userMessage,        \* argument of sendMessage
    asstContent,        \* argument of the pending addAssistantMessage call
    after,              \* what follows the pending addAssistantMessage call
    result,             \* ChatResponse of /api/chat
    now,                \* Date.now()
    nextId,             \* next id given by chat_messages
    entities,           \* number of non-summary entities of the session
    noteAction,         \* history: note callback invoked by the current send
    noteThrew,          \* history: that callback threw
    selectedEntityIds,  \* prop selectedEntityIds
    apiCalls,           \* history: endpoints and callbacks used by the current send
    elapsed             \* time since the fetch of /api/chat was issued, in units of 60 s

chatVars == <<messages, isLoading, isLoadingHistory, chatDb, channel, histPc, histData,
              sendPc, savedMsg, sendNo, userMessage, asstContent, after, result, now,
              nextId, entities, noteAction, noteThrew, selectedEntityIds, apiCalls,
              elapsed>>


\* ------------------------------------------------------------------------
\* useSessionNote (note state manager)
\* ------------------------------------------------------------------------
NoNote == "null"
NoteRow == "note-1"
NoRow == <<"no row">>

\* DEFAULT_NOTE_CONTENT, abbreviated to its first line "# P"
DEFAULT_NOTE_CONTENT == <<"#", SP, "P", NL>>

\* note texts typed by the user or written by the assistant
NoteTexts == {<<"x">>, <<"y">>}
\* text appended by the assistant
AppendTexts == {<<"z">>}
\* what session_notes can hold when the hook mounts
StoredAtMount == {NoRow, <<>>, <<SP>>, <<"x">>}

NoteStart ==
    /\ note = NoNote
    /\ content = <<>>
    /\ isSaving = FALSE
    /\ isNoteLoading = TRUE
    /\ lastSavedContent = <<>>
    /\ saveTimeoutRef = 0
    /\ timers = {}
    /\ nextTimer = 1
    /\ dbNote \in StoredAtMount
    /\ loadPc = "fetching"
    /\ writes = <<>>
    /\ immediateCalls = 0
    /\ writeFailed = FALSE
    /\ bursts = 0
    /\ debounceCalls = 0
    /\ forceCancelled = 0
    /\ lastUpdate = <<>>
    /\ lastDebounced = <<>>

\* the hook is not mounted (used by the specifications of the other parts)
NoteIdle ==
    /\ note = NoNote
    /\ content = <<>>
    /\ isSaving = FALSE
    /\ isNoteLoading = FALSE
    /\ lastSavedContent = <<>>
    /\ saveTimeoutRef = 0
    /\ timers = {}
    /\ nextTimer = 1
    /\ dbNote = NoRow
    /\ loadPc = "unmounted"
    /\ writes = <<>>
    /\ immediateCalls = 0
    /\ writeFailed = FALSE
    /\ bursts = 0
    /\ debounceCalls = 0
    /\ forceCancelled = 0
    /\ lastUpdate = <<>>
    /\ lastDebounced = <<>>

noteHistory == <<writeFailed, bursts, debounceCalls, forceCancelled, lastUpdate, lastDebounced>>

\* variant: only the empty string counts as a note without text
HasNoteText_NoTrim(text) == text # <<>>

\* existingNote.content?.trim()
HasNoteText(text) == Trim(text) # <<>>

\* fetchOrCreateNote: the select of the session's note returns
FetchDone(fetchOk) ==
    /\ loadPc = "fetching"
    /\ IF fetchOk /\ dbNote # NoRow
       THEN /\ note' = NoteRow
            /\ IF HasNoteText(dbNote)
               THEN /\ content' = dbNote
                    /\ lastSavedContent' = dbNote
                    /\ loadPc' = "done"
                    /\ isNoteLoading' = FALSE
                    /\ UNCHANGED writes
               ELSE /\ content' = DEFAULT_NOTE_CONTENT
                    /\ lastSavedContent' = DEFAULT_NOTE_CONTENT
                    /\ loadPc' = "seeding"
                    /\ writes' = Append(writes, [kind |-> "seed", content |-> DEFAULT_NOTE_CONTENT])
                    /\ UNCHANGED isNoteLoading
       ELSE IF fetchOk
            THEN \* PGRST116: the insert of a new note is issued
                 /\ loadPc' = "creating"
                 /\ writes' = Append(writes, [kind |-> "create", content |-> DEFAULT_NOTE_CONTENT])
                 /\ UNCHANGED <<note, content, lastSavedContent, isNoteLoading>>
            ELSE \* any other fetch error is logged
                 /\ loadPc' = "failed"
                 /\ isNoteLoading' = FALSE
                 /\ UNCHANGED <<note, content, lastSavedContent, writes>>
    /\ UNCHANGED <<isSaving, saveTimeoutRef, timers, nextTimer, dbNote, immediateCalls>>
    /\ UNCHANGED noteHistory

\* saveNote(newContent) as called from a closure that saw note?.id = hasId
SaveNote(text, hasId) ==
    IF ~hasId \/ text = lastSavedContent
    THEN UNCHANGED <<writes, isSaving>>
    ELSE /\ isSaving' = TRUE
         /\ writes' = Append(writes, [kind |-> "save", content |-> text])

\* variant: the armed timer is not cancelled
ClearSaveTimeout_Keep(pending) == pending

\* clearTimeout(saveTimeoutRef.current)
ClearSaveTimeout(pending) == {t \in pending : t.id # saveTimeoutRef}

\* updateContent(newContent)
UpdateContent(text) ==
    /\ loadPc # "unmounted"
    /\ nextTimer <= MaxUpdates
    /\ content' = text
    /\ timers' = ClearSaveTimeout(timers)
                    \cup {[id |-> nextTimer, newContent |-> text, hasId |-> (note # NoNote)]}
    /\ saveTimeoutRef' = nextTimer
    /\ nextTimer' = nextTimer + 1
    /\ bursts' = IF timers = {} THEN bursts + 1 ELSE bursts
    /\ lastUpdate' = text
    /\ UNCHANGED <<note, isSaving, isNoteLoading, lastSavedContent, dbNote, loadPc, writes,
                   immediateCalls, writeFailed, debounceCalls, forceCancelled, lastDebounced>>

\* the 800 ms timer of updateContent fires
DebounceFire ==
    \E t \in timers :
        /\ timers' = timers \ {t}
        /\ SaveNote(t.newContent, t.hasId)
        /\ debounceCalls' = debounceCalls + 1
        /\ lastDebounced' = t.newContent
        /\ UNCHANGED <<note, content, isNoteLoading, lastSavedContent, saveTimeoutRef, nextTimer,
                       dbNote, loadPc, immediateCalls, writeFailed, bursts, forceCancelled,
                       lastUpdate>>

\* the body of appendToNote, for the content and the note id that the
\* closure captured at the render that built it
AppendCall(captured, hasId, text) ==
    /\ content' = (IF captured # <<>> THEN captured \o <<NL, NL>> \o text ELSE text)
    /\ SaveNote(content', hasId)
    /\ UNCHANGED <<note, isNoteLoading, lastSavedContent, saveTimeoutRef, timers, nextTimer,
                   dbNote, loadPc>>
    /\ UNCHANGED noteHistory

\* the body of setNoteContent, for the note id that the closure captured
SetNoteCall(hasId, text) ==
    /\ content' = text
    /\ SaveNote(text, hasId)
    /\ UNCHANGED <<note, isNoteLoading, lastSavedContent, saveTimeoutRef, timers, nextTimer,
                   dbNote, loadPc>>
    /\ UNCHANGED noteHistory

\* appendToNote(text)
AppendToNote(text) ==
    /\ loadPc # "unmounted"
    /\ immediateCalls < MaxImmediate
    /\ immediateCalls' = immediateCalls + 1
    /\ AppendCall(content, note # NoNote, text)

\* setNoteContent(newContent)
SetNoteContent(text) ==
    /\ loadPc # "unmounted"
    /\ immediateCalls < MaxImmediate
    /\ immediateCalls' = immediateCalls + 1
    /\ SetNoteCall(note # NoNote, text)

\* forceSave()
ForceSave ==
    /\ loadPc # "unmounted"
    /\ immediateCalls < MaxImmediate
    /\ immediateCalls' = immediateCalls + 1
    /\ timers' = ClearSaveTimeout(timers)
    /\ forceCancelled' = forceCancelled + Cardinality(timers \ timers')
    /\ IF content # lastSavedContent
       THEN SaveNote(content, note # NoNote)
       ELSE UNCHANGED <<writes, isSaving>>
    /\ UNCHANGED <<note, content, isNoteLoading, lastSavedContent, saveTimeoutRef, nextTimer,
                   dbNote, loadPc, writeFailed, bursts, debounceCalls, lastUpdate, lastDebounced>>

\* the oldest storage write in flight returns
WriteDone(ok) ==
    /\ writes # <<>>
    /\ writes' = Tail(writes)
    /\ dbNote' = IF ok THEN Head(writes).content ELSE dbNote
    /\ writeFailed' = (writeFailed \/ ~ok)
    /\ CASE Head(writes).kind = "save" ->
              /\ isSaving' = FALSE
              /\ lastSavedContent' = IF ok THEN Head(writes).content ELSE lastSavedContent
              /\ UNCHANGED <<note, content, loadPc, isNoteLoading>>
         [] Head(writes).kind = "seed" ->
              /\ loadPc' = "done"
              /\ isNoteLoading' = FALSE
              /\ UNCHANGED <<note, content, isSaving, lastSavedContent>>
         [] Head(writes).kind = "create" ->
              /\ loadPc' = "done"
              /\ isNoteLoading' = FALSE
              /\ note' = IF ok THEN NoteRow ELSE note
              /\ content' = IF ok THEN DEFAULT_NOTE_CONTENT ELSE content
              /\ lastSavedContent' = IF ok THEN DEFAULT_NOTE_CONTENT ELSE lastSavedContent
              /\ UNCHANGED isSaving
    /\ UNCHANGED <<saveTimeoutRef, timers, nextTimer, immediateCalls,
                   bursts, debounceCalls, forceCancelled, lastUpdate, lastDebounced>>

\* ------------------------------------------------------------------------
\* useChat (conversational update coordinator)
\* ------------------------------------------------------------------------
Uppers == <<"A","B","C","D","E","F","G","H","I","J","K","L","M",
            "N","O","P","Q","R","S","T","U","V","W","X","Y","Z">>
Lowers == <<"a","b","c","d","e","f","g","h","i","j","k","l","m",
            "n","o","p","q","r","s","t","u","v","w","x","y","z">>

ToLowerChar(c) ==
    IF \E i \in 1..Len(Uppers) : Uppers[i] = c
    THEN Lowers[CHOOSE i \in 1..Len(Uppers) : Uppers[i] = c]
    ELSE c

\* variant: the text is compared as typed
ToLowerCase_AsIs(str) == str

\* String.prototype.toLowerCase
ToLowerCase(str) == [i \in 1..Len(str) |-> ToLowerChar(str[i])]

\* String.prototype.includes
Includes(str, pat) ==
    \E i \in 1..(Len(str) - Len(pat) + 1) : SubSeq(str, i, i + Len(pat) - 1) = pat

\* the keyword list; the three localized keywords are written by code point
keywords ==
    { <<"s","u","m","m","a","r","i","z","e">>,
      <<"s","u","m","m","a","r","y">>,
      <<"U+7E3D","U+7D50">>,
      <<"U+6458","U+8981">>,
      <<"U+6982","U+62EC">> }

isSummarizeCommand(message) ==
    \E kw \in keywords : Includes(ToLowerCase(message), kw)

\* texts submitted to sendMessage
UserMessages ==
    { <<"h","i">>,
      <<"S","u","m","m","a","r","y">>,
      <<SP>> }

\* outcomes of the fetch of /api/chat
ChatOutcomes == {"ok", "notOk", "failed"}

\* the delay of the abort timer, in units of 60 s
ChatTimeout == 1

\* text of the error turn of sendMessage for each failure
ChatErrorText(outcome) ==
    CASE outcome = "timeout" -> "Sorry, I encountered an error: Request timed out. Please try again."
      [] outcome = "failed" -> "Sorry, I encountered an error: Network error. Please check your connection and try again."
      [] outcome = "badBody" -> "Sorry, I encountered an error: Unexpected end of JSON input"
      [] OTHER -> "Sorry, I encountered an error: API request failed"

NothingText == "There's nothing to summarize yet. Upload some screenshots first!"
SorryText == "Sorry, I couldn't create a summary. Please try again."
NoteErrorText == "Sorry, I encountered an error: note update failed"

\* ChatResponse.updatedNote: null, or a string (possibly the empty one)
NoUpdatedNote == <<"null">>
UpdatedNotes == {NoUpdatedNote, <<>>, <<"x", SP, "w">>}

\* the truth value of result.updatedNote in a condition
Truthy(updatedNote) == updatedNote # NoUpdatedNote /\ updatedNote # <<>>

NoResult == [noteWasModified |-> FALSE, updatedNote |-> NoUpdatedNote]

\* saveMessage returned null
NoMsg == [id |-> <<"null", 0>>, role |-> "none", content |-> "", created_at |-> 0, send |-> 0]

\* a row of chat_messages as returned by insert().select().single()
DbRow(role, text) ==
    [id |-> <<"db", nextId>>, role |-> role, content |-> text, created_at |-> now,
     send |-> sendNo]

\* the in-memory turn built when saving fails
TempTurn(text) ==
    [id |-> <<"temp", now>>, role |-> "assistant", content |-> text, created_at |-> now,
     send |-> sendNo]

\* setMessages(prev => prev.some(m => m.id === msg.id) ? prev : [...prev, msg])
AddIfAbsent(prev, msg) ==
    IF \E i \in 1..Len(prev) : prev[i].id = msg.id THEN prev ELSE Append(prev, msg)

\* variant: the fallback turn is dropped when saving fails
AddFallback_Drop(prev, msg) == prev

\* setMessages(prev => [...prev, { id: `temp-${Date.now()}`, ... }])
AddFallback(prev, msg) == Append(prev, msg)

\* variant: a note error reaches the outer catch of sendMessage
NoteErrorGoesTo_OuterCatch == "catch"

\* the inner try/catch around the note update logs the error and goes on
NoteErrorGoesTo == "finally"

\* the note callback chosen from the ChatResponse
NoteActionOf(res) ==
    IF res.noteWasModified /\ Truthy(res.updatedNote) THEN "replace"
    ELSE IF ~res.noteWasModified THEN "append"
    ELSE "none"

\* entities of the session: a screenshot entity and an earlier summary
GenericEntity == [id |-> "e1", entity_type |-> "generic"]
SummaryEntity == [id |-> "e2", entity_type |-> "ai-summary"]

\* the props entities and selectedEntityIds of the hook
EntityCases ==
    { <<{}, {}>>,
      <<{SummaryEntity}, {}>>,
      <<{GenericEntity, SummaryEntity}, {}>>,
      <<{GenericEntity, SummaryEntity}, {"e2"}>>,
      <<{GenericEntity, SummaryEntity}, {"e1"}>> }

\* variant: the filter keeps the earlier summaries
ContextEntities_WithSummaries(ents, selected) ==
    IF Cardinality(selected) > 0
    THEN {e \in ents : e.id \in selected}
    ELSE ents

\* contextEntities of handleSummarizeCommand
ContextEntities(ents, selected) ==
    IF Cardinality(selected) > 0
    THEN {e \in ents : e.id \in selected /\ e.entity_type # "ai-summary"}
    ELSE {e \in ents : e.entity_type # "ai-summary"}

ChatStart ==
    /\ messages = <<>>
    /\ isLoading = FALSE
    /\ isLoadingHistory = TRUE
    /\ chatDb \in {<<>>, <<[id |-> <<"db", 0>>, role |-> "user", content |-> "earlier",
                           created_at |-> 0, send |-> 0]>>}
    /\ channel = <<>>
    /\ histPc = "loading"
    /\ histData = <<>>
    /\ sendPc = "idle"
    /\ savedMsg = NoMsg
    /\ sendNo = 0
    /\ userMessage = <<>>
    /\ asstContent = ""
    /\ after = "end"
    /\ result = NoResult
    /\ now = 0
    /\ nextId = 1
    /\ entities \in {{}, {GenericEntity}}
    /\ selectedEntityIds = {}
    /\ noteAction = "none"
    /\ noteThrew = FALSE
    /\ apiCalls = {}
    /\ elapsed = 0

\* the hook with its history loaded, for each case of entities and selection
SendStart ==
    /\ messages = <<>>
    /\ isLoading = FALSE
    /\ isLoadingHistory = FALSE
    /\ chatDb = <<>>
    /\ channel = <<>>
    /\ histPc = "done"
    /\ histData = <<>>
    /\ sendPc = "idle"
    /\ savedMsg = NoMsg
    /\ sendNo = 0
    /\ userMessage = <<>>
    /\ asstContent = ""
    /\ after = "end"
    /\ result = NoResult
    /\ now = 0
    /\ nextId = 1
    /\ \E c \in EntityCases : entities = c[1] /\ selectedEntityIds = c[2]
    /\ noteAction = "none"
    /\ noteThrew = FALSE
    /\ apiCalls = {}
    /\ elapsed = 0

\* the hook is not mounted (used by the specifications of the other parts)
ChatIdle ==
    /\ messages = <<>>
    /\ isLoading = FALSE
    /\ isLoadingHistory = FALSE
    /\ chatDb = <<>>
    /\ channel = <<>>
    /\ histPc = "unmounted"
    /\ histData = <<>>
    /\ sendPc = "unmounted"
    /\ savedMsg = NoMsg
    /\ sendNo = 0
    /\ userMessage = <<>>
    /\ asstContent = ""
    /\ after = "end"
    /\ result = NoResult
    /\ now = 0
    /\ nextId = 1
    /\ entities = {}
    /\ selectedEntityIds = {}
    /\ noteAction = "none"
    /\ noteThrew = FALSE
    /\ apiCalls = {}
    /\ elapsed = 0

chatEnv == <<now, entities, selectedEntityIds>>
chatHist == <<isLoadingHistory, histPc, histData>>
\* locals of a send that only its own steps change
sendLocals == <<savedMsg, sendNo, userMessage, asstContent, after, result>>

\* loadMessages: the select runs on the server
HistoryQuery ==
    /\ histPc = "loading"
    /\ histPc' = "queried"
    /\ histData' = chatDb
    /\ UNCHANGED <<messages, isLoading, isLoadingHistory, chatDb, channel, sendPc, nextId,
                   noteAction, noteThrew, apiCalls>>
    /\ UNCHANGED sendLocals
    /\ UNCHANGED chatEnv
    /\ UNCHANGED elapsed

\* loadMessages: the select returns
HistoryDone(ok) ==
    /\ histPc = "queried"
    /\ histPc' = "done"
    /\ isLoadingHistory' = FALSE
    /\ messages' = IF ok THEN histData ELSE messages
    /\ UNCHANGED <<isLoading, chatDb, channel, histData, sendPc, nextId,
                   noteAction, noteThrew, apiCalls>>
    /\ UNCHANGED sendLocals
    /\ UNCHANGED chatEnv
    /\ UNCHANGED elapsed

\* the realtime channel delivers the oldest INSERT event
RealtimeInsert ==
    /\ channel # <<>>
    /\ channel' = Tail(channel)
    /\ messages' = AddIfAbsent(messages, Head(channel))
    /\ UNCHANGED <<isLoading, chatDb, sendPc, nextId, noteAction, noteThrew, apiCalls>>
    /\ UNCHANGED sendLocals
    /\ UNCHANGED <<chatEnv, chatHist>>
    /\ UNCHANGED elapsed

\* rows of chat_messages written by other clients of the session
RemoteRows == {i \in 1..Len(chatDb) : chatDb[i].content = "remote"}

\* another client of the session inserts a turn: the server stamps created_at
\* and publishes the INSERT event on the channel
RemoteInsert ==
    /\ histPc # "unmounted"
    /\ Cardinality(RemoteRows) < MaxRemote
    /\ LET row == [id |-> <<"db", nextId>>, role |-> "user", content |-> "remote",
                   created_at |-> now, send |-> 0]
       IN  /\ chatDb' = Append(chatDb, row)
           /\ channel' = Append(channel, row)
    /\ nextId' = nextId + 1
    /\ UNCHANGED <<messages, isLoading, sendPc, noteAction, noteThrew, apiCalls>>
    /\ UNCHANGED sendLocals
    /\ UNCHANGED <<chatEnv, chatHist>>
    /\ UNCHANGED elapsed

\* a millisecond passes
Tick ==
    /\ histPc # "unmounted"
    /\ now < MaxNow
    /\ now' = now + 1
    /\ UNCHANGED <<messages, isLoading, chatDb, channel, sendPc, nextId, entities,
                   selectedEntityIds, noteAction, noteThrew, apiCalls>>
    /\ UNCHANGED sendLocals
    /\ UNCHANGED chatHist
    /\ UNCHANGED elapsed

\* ChatInput.handleSubmit -> sendMessage(userMessage), up to the first await
SendMessage(text) ==
    /\ sendPc = "idle"
    /\ ~isLoading
    /\ sendNo < MaxSends
    /\ Trim(text) # <<>>
    /\ isLoading' = TRUE
    /\ sendPc' = "saveUser"
    /\ sendNo' = sendNo + 1
    /\ userMessage' = text
    /\ noteAction' = "none"
    /\ noteThrew' = FALSE
    /\ apiCalls' = {}
    /\ UNCHANGED <<messages, chatDb, channel, savedMsg, asstContent, after, result, nextId>>
    /\ UNCHANGED <<chatEnv, chatHist>>
    /\ UNCHANGED elapsed

\* saveMessage: the insert into chat_messages runs on the server
InsertMessage(ok) ==
    /\ sendPc \in {"saveUser", "saveAssistant"}
    /\ LET row == IF sendPc = "saveUser" THEN DbRow("user", "user")
                  ELSE DbRow("assistant", asstContent)
       IN  IF ok
           THEN /\ chatDb' = Append(chatDb, row)
                /\ channel' = Append(channel, row)
                /\ nextId' = nextId + 1
                /\ savedMsg' = row
           ELSE /\ savedMsg' = NoMsg
                /\ UNCHANGED <<chatDb, channel, nextId>>
    /\ sendPc' = (IF sendPc = "saveUser" THEN "userReturn" ELSE "assistantReturn")
    /\ UNCHANGED <<messages, isLoading, sendNo, userMessage, asstContent, after, result,
                   noteAction, noteThrew, apiCalls>>
    /\ UNCHANGED <<chatEnv, chatHist>>
    /\ UNCHANGED elapsed

\* saveMessage('user', userMessage) has returned: the saved turn is added
\* and the command is classified
SaveUserDone ==
    /\ sendPc = "userReturn"
    /\ messages' = (IF savedMsg # NoMsg THEN AddIfAbsent(messages, savedMsg) ELSE messages)
    /\ savedMsg' = NoMsg
    /\ IF isSummarizeCommand(userMessage)
       THEN IF ContextEntities(entities, selectedEntityIds) = {}
            THEN /\ sendPc' = "saveAssistant"
                 /\ asstContent' = NothingText
                 /\ after' = "end"
                 /\ apiCalls' = apiCalls \cup {"handleSummarizeCommand"}
            ELSE /\ sendPc' = "awaitSummarize"
                 /\ apiCalls' = apiCalls \cup {"handleSummarizeCommand", "/api/summarize"}
                 /\ UNCHANGED <<asstContent, after>>
       ELSE /\ sendPc' = "awaitChat"
            /\ apiCalls' = apiCalls \cup {"/api/chat"}
            /\ UNCHANGED <<asstContent, after>>
    /\ UNCHANGED <<isLoading, chatDb, channel, nextId, sendNo, userMessage, result,
                   noteAction, noteThrew>>
    /\ UNCHANGED <<chatEnv, chatHist>>
    /\ UNCHANGED elapsed

\* the fetch of /api/chat settles before the timer runs: it rejects, or it
\* resolves with the status line and the timer is cleared
ChatResponse(outcome, res) ==
    /\ sendPc = "awaitChat"
    /\ elapsed < ChatTimeout
    /\ IF outcome = "failed"
       THEN /\ sendPc' = "saveAssistant"
            /\ asstContent' = ChatErrorText(outcome)
            /\ after' = "end"
            /\ elapsed' = 0
            /\ UNCHANGED result
       ELSE /\ sendPc' = (IF outcome = "ok" THEN "awaitJson" ELSE "awaitText")
            /\ result' = res
            /\ UNCHANGED <<asstContent, after, elapsed>>
    /\ UNCHANGED <<messages, isLoading, chatDb, channel, savedMsg, sendNo, userMessage,
                   nextId, noteAction, noteThrew, apiCalls>>
    /\ UNCHANGED <<chatEnv, chatHist>>

\* response.json() (status ok) or response.text() (status not ok) settles
ChatBody(read) ==
    /\ sendPc \in {"awaitJson", "awaitText"}
    /\ sendPc' = "saveAssistant"
    /\ elapsed' = 0
    /\ IF sendPc = "awaitJson" /\ read
       THEN /\ asstContent' = "reply"
            /\ after' = "noteUpdate"
            /\ UNCHANGED result
       ELSE /\ asstContent' = ChatErrorText(IF read THEN "notOk" ELSE "badBody")
            /\ after' = "end"
            /\ result' = NoResult
    /\ UNCHANGED <<messages, isLoading, chatDb, channel, savedMsg, sendNo, userMessage,
                   nextId, noteAction, noteThrew, apiCalls>>
    /\ UNCHANGED <<chatEnv, chatHist>>

\* setTimeout(() => controller.abort(), 60000) runs while fetch is pending:
\* fetch rejects with an AbortError
ChatAbort ==
    /\ sendPc = "awaitChat"
    /\ elapsed >= ChatTimeout
    /\ sendPc' = "saveAssistant"
    /\ asstContent' = ChatErrorText("timeout")
    /\ after' = "end"
    /\ elapsed' = 0
    /\ UNCHANGED <<messages, isLoading, chatDb, channel, savedMsg, sendNo, userMessage,
                   result, nextId, noteAction, noteThrew, apiCalls>>
    /\ UNCHANGED <<chatEnv, chatHist>>

\* 60 seconds pass while the request is in flight
ChatTick ==
    /\ sendPc \in {"awaitChat", "awaitJson", "awaitText"}
    /\ elapsed < ChatTimeout
    /\ elapsed' = elapsed + 1
    /\ UNCHANGED <<messages, isLoading, chatDb, channel, sendPc, savedMsg, sendNo,
                   userMessage, asstContent, after, result, nextId, noteAction, noteThrew,
                   apiCalls>>
    /\ UNCHANGED <<chatEnv, chatHist>>

\* the fetch of /api/summarize settles
SummarizeResponse(ok) ==
    /\ sendPc = "awaitSummarize"
    /\ IF ok
       THEN /\ sendPc' = "insertSummary"
            /\ apiCalls' = apiCalls \cup {"extracted_info"}
            /\ UNCHANGED <<asstContent, after>>
       ELSE /\ sendPc' = "saveAssistant"
            /\ asstContent' = SorryText
            /\ after' = "end"
            /\ UNCHANGED apiCalls
    /\ UNCHANGED <<messages, isLoading, chatDb, channel, savedMsg, sendNo, userMessage,
                   result, nextId, noteAction, noteThrew>>
    /\ UNCHANGED <<chatEnv, chatHist>>
    /\ UNCHANGED elapsed

\* the insert of the ai-summary entity returns (its error is not inspected)
InsertSummaryDone ==
    /\ sendPc = "insertSummary"
    /\ sendPc' = "saveAssistant"
    /\ asstContent' = "summary"
    /\ after' = "refresh"
    /\ UNCHANGED <<messages, isLoading, chatDb, channel, savedMsg, sendNo, userMessage,
                   result, nextId, noteAction, noteThrew, apiCalls>>
    /\ UNCHANGED <<chatEnv, chatHist>>
    /\ UNCHANGED elapsed

\* addAssistantMessage: saveMessage('assistant', content) has returned, the turn
\* is added, and the caller runs to its next await or to its end
SaveAssistantDone(throws) ==
    /\ sendPc = "assistantReturn"
    /\ messages' = (IF savedMsg # NoMsg THEN AddIfAbsent(messages, savedMsg)
                    ELSE AddFallback(messages, TempTurn(asstContent)))
    /\ savedMsg' = NoMsg
    /\ isLoading' = FALSE
    /\ CASE after = "noteUpdate" ->
              \* onNoteUpdate / onNoteAppend inside the inner try
              /\ noteAction' = NoteActionOf(result)
              /\ noteThrew' = (throws /\ NoteActionOf(result) # "none")
              /\ IF noteThrew' /\ NoteErrorGoesTo = "catch"
                 THEN /\ sendPc' = "saveAssistant"
                      /\ asstContent' = NoteErrorText
                      /\ after' = "end"
                 ELSE /\ sendPc' = "idle"
                      /\ asstContent' = ""
                      /\ after' = "end"
         [] after = "refresh" ->
              \* onEntitiesUpdate inside the try of handleSummarizeCommand
              /\ IF throws
                 THEN /\ sendPc' = "saveAssistant"
                      /\ asstContent' = SorryText
                      /\ after' = "end"
                 ELSE /\ sendPc' = "idle"
                      /\ asstContent' = ""
                      /\ after' = "end"
              /\ UNCHANGED <<noteAction, noteThrew>>
         [] OTHER ->
              /\ ~throws
              /\ sendPc' = "idle"
              /\ asstContent' = ""
              /\ after' = "end"
              /\ UNCHANGED <<noteAction, noteThrew>>
    /\ result' = NoResult
    /\ apiCalls' = (IF after = "refresh" THEN apiCalls \cup {"onEntitiesUpdate"} ELSE apiCalls)
    /\ UNCHANGED <<chatDb, channel, nextId, sendNo, userMessage>>
    /\ UNCHANGED <<chatEnv, chatHist>>
    /\ UNCHANGED elapsed

\* ------------------------------------------------------------------------
\* NoteEditor (auto-removal of the :::ai markers)
\* ------------------------------------------------------------------------
VARIABLES
    edContent,        \* prop content of the rendered NoteEditor
    edOnChange,       \* prop onChange: the note id its closure was built with
    fadeoutTimerRef,  \* fadeoutTimerRef.current: 0 for null, else a timer id
    fadeTimers,       \* armed timers: [id, content (captured), left (seconds)]
    nextFade,         \* next timer id of setTimeout
    commits,          \* history: the calls of onChange made by the timer
    arrivalNo,        \* history: number of renders with a new prop value
    restarts          \* history: number of armed timers cleared by a cleanup

editorVars == <<edContent, edOnChange, fadeoutTimerRef, fadeTimers, nextFade,
                commits, arrivalNo, restarts>>

\* the delay of the timer, in seconds
FadeoutDelay == 5

\* text.replace(/:::ai\n?/g, '')
RECURSIVE RemoveOpenMarkers(_)
RemoveOpenMarkers(text) ==
    IF text = <<>> THEN <<>>
    ELSE IF Len(text) >= 5 /\ SubSeq(text, 1, 5) = OpenLine
    THEN LET rest == SubSeq(text, 6, Len(text))
         IN  RemoveOpenMarkers(IF rest # <<>> /\ Head(rest) = NL THEN Tail(rest) ELSE rest)
    ELSE <<Head(text)>> \o RemoveOpenMarkers(Tail(text))

\* text.replace(/\n?:::/g, '')
RECURSIVE RemoveCloseMarkers(_)
RemoveCloseMarkers(text) ==
    IF text = <<>> THEN <<>>
    ELSE IF Len(text) >= 4 /\ SubSeq(text, 1, 4) = <<NL>> \o CloseLine
    THEN RemoveCloseMarkers(SubSeq(text, 5, Len(text)))
    ELSE IF Len(text) >= 3 /\ SubSeq(text, 1, 3) = CloseLine
    THEN RemoveCloseMarkers(SubSeq(text, 4, Len(text)))
    ELSE <<Head(text)>> \o RemoveCloseMarkers(Tail(text))

removeAiMarkers(text) == RemoveCloseMarkers(RemoveOpenMarkers(text))

\* note texts handed to the editor by its parent
EditorTexts ==
    { <<"x">>,
      OpenLine \o <<NL, "y", NL>> \o CloseLine,
      <<"x", NL, NL>> \o OpenLine \o <<NL, "z", NL>> \o CloseLine,
      <<"x">> \o OpenLine \o <<"y">>,
      OpenLine \o <<NL, "a">> \o CloseLine \o <<"b", NL>> \o CloseLine }

\* the values of onChange (updateContent is rebuilt when note?.id changes)
EditorHandlers == {NoNote, NoteRow}

\* variant: clearTimeout leaves the timer armed
ClearFadeout_Keep(pending, ref) == pending

\* if (fadeoutTimerRef.current) clearTimeout(fadeoutTimerRef.current)
ClearFadeout(pending, ref) == {t \in pending : t.id # ref}

\* the body of the effect, run for a rendered text after the previous cleanup
ArmFadeout(text, pending, ref, id) ==
    IF Includes(text, OpenLine)
    THEN ClearFadeout(pending, ref)
            \cup {[id |-> id, content |-> text, left |-> FadeoutDelay]}
    ELSE pending

\* a render with a changed dependency: cleanup of the previous effect, then
\* the effect for the new props
Rerender(text, handler, pending) ==
    /\ edContent' = text
    /\ edOnChange' = handler
    /\ fadeTimers' = ArmFadeout(text, ClearFadeout(pending, fadeoutTimerRef),
                                fadeoutTimerRef, nextFade)
    /\ fadeoutTimerRef' = IF Includes(text, OpenLine) THEN nextFade ELSE fadeoutTimerRef
    /\ nextFade' = IF Includes(text, OpenLine) THEN nextFade + 1 ELSE nextFade
    /\ restarts' = restarts + Cardinality({t \in pending : t.id = fadeoutTimerRef})

EditorStart ==
    /\ edContent \in EditorTexts
    /\ edOnChange \in EditorHandlers
    /\ fadeoutTimerRef = IF Includes(edContent, OpenLine) THEN 1 ELSE 0
    /\ fadeTimers = ArmFadeout(edContent, {}, 0, 1)
    /\ nextFade = IF Includes(edContent, OpenLine) THEN 2 ELSE 1
    /\ commits = <<>>
    /\ arrivalNo = 0
    /\ restarts = 0

EditorIdle ==
    /\ edContent = <<>>
    /\ edOnChange = NoNote
    /\ fadeoutTimerRef = 0
    /\ fadeTimers = {}
    /\ nextFade = 1
    /\ commits = <<>>
    /\ arrivalNo = 0
    /\ restarts = 0

\* the parent renders the editor with another note text (typing, load, chat)
ContentArrives(text) ==
    /\ arrivalNo < MaxArrivals
    /\ text # edContent
    /\ \E handler \in EditorHandlers : Rerender(text, handler, fadeTimers)
    /\ arrivalNo' = arrivalNo + 1
    /\ UNCHANGED commits

\* the parent renders the editor with the same text and a rebuilt onChange
HandlerChanges ==
    /\ arrivalNo < MaxArrivals
    /\ \E handler \in EditorHandlers :
          /\ handler # edOnChange
          /\ Rerender(edContent, handler, fadeTimers)
    /\ arrivalNo' = arrivalNo + 1
    /\ UNCHANGED commits

\* one second passes; a due timer runs before more time passes
EditorTick ==
    /\ fadeTimers # {}
    /\ \A t \in fadeTimers : t.left > 0
    /\ fadeTimers' = {[t EXCEPT !.left = t.left - 1] : t \in fadeTimers}
    /\ UNCHANGED <<edContent, edOnChange, fadeoutTimerRef, nextFade, commits, arrivalNo, restarts>>

\* the timer callback: onChange(cleanedContent) when it differs from the
\* captured text; onChange is updateContent, which sets the note text, and
\* the editor is rendered with it
FadeoutFire ==
    \E t \in fadeTimers :
        /\ t.left = 0
        /\ LET cleanedContent == removeAiMarkers(t.content)
               pending == fadeTimers \ {t}
           IN  IF cleanedContent # t.content
               THEN /\ commits' = Append(commits,
                                    [text |-> cleanedContent, captured |-> t.content,
                                     current |-> edContent, arrival |-> arrivalNo])
                    /\ IF cleanedContent # edContent
                       THEN Rerender(cleanedContent, edOnChange, pending)
                       ELSE /\ fadeTimers' = pending
                            /\ UNCHANGED <<edContent, edOnChange, fadeoutTimerRef, nextFade, restarts>>
               ELSE /\ fadeTimers' = pending
                    /\ UNCHANGED <<edContent, edOnChange, fadeoutTimerRef, nextFade, commits, restarts>>
        /\ UNCHANGED arrivalNo

\* ------------------------------------------------------------------------
\* SummaryPanel (useSessionNote wired to useChat)
\* ------------------------------------------------------------------------
VARIABLES
    sentNote,     \* noteContent of the render whose sendMessage is running:
                  \* currentNote of sendMessage, content of its onNoteAppend
    sentHasId,    \* note?.id of that render, captured by its saveNote
    noteCalls     \* history: the calls of onNoteUpdate / onNoteAppend

panelVars == <<sentNote, sentHasId, noteCalls>>

\* result.reply of a successful call, as text
ReplyText == <<"o", "k">>

YouLabel == <<"*", "*", "Y", "o", "u", ":", "*", "*", SP>>
AiLabel == <<"*", "*", "A", "I", ":", "*", "*", SP>>

\* `\n\n:::ai\n---\n\n**You:** ${userMessage}\n\n**AI:** ${aiResponse}\n:::`
ChatLog(message, aiResponse) ==
    <<NL, NL>> \o OpenLine \o <<NL, "-", "-", "-", NL, NL>> \o YouLabel \o message
        \o <<NL, NL>> \o AiLabel \o aiResponse \o <<NL>> \o CloseLine

\* manual edits typed into the editor while the panel is shown
PanelEdits == {<<>>, <<"y">>}

\* the panel with its note loaded and its chat history loaded
PanelStart ==
    /\ note = NoteRow
    /\ content = <<"x">>
    /\ lastSavedContent = content
    /\ dbNote = content
    /\ isSaving = FALSE
    /\ isNoteLoading = FALSE
    /\ saveTimeoutRef = 0
    /\ timers = {}
    /\ nextTimer = 1
    /\ loadPc = "done"
    /\ writes = <<>>
    /\ immediateCalls = 0
    /\ writeFailed = FALSE
    /\ bursts = 0
    /\ debounceCalls = 0
    /\ forceCancelled = 0
    /\ lastUpdate = <<>>
    /\ lastDebounced = <<>>
    /\ messages = <<>>
    /\ isLoading = FALSE
    /\ isLoadingHistory = FALSE
    /\ chatDb = <<>>
    /\ channel = <<>>
    /\ histPc = "done"
    /\ histData = <<>>
    /\ sendPc = "idle"
    /\ savedMsg = NoMsg
    /\ sendNo = 0
    /\ userMessage = <<>>
    /\ asstContent = ""
    /\ after = "end"
    /\ result = NoResult
    /\ now = 0
    /\ nextId = 1
    /\ entities \in {{}, {GenericEntity}}
    /\ selectedEntityIds = {}
    /\ noteAction = "none"
    /\ noteThrew = FALSE
    /\ apiCalls = {}
    /\ elapsed = 0
    /\ sentNote = <<>>
    /\ sentHasId = FALSE
    /\ noteCalls = <<>>

PanelIdle ==
    /\ sentNote = <<>>
    /\ sentHasId = FALSE
    /\ noteCalls = <<>>

\* ChatInput calls the sendMessage of the latest render
PanelSend(text) ==
    /\ SendMessage(text)
    /\ sentNote' = content
    /\ sentHasId' = (note # NoNote)
    /\ UNCHANGED noteCalls

\* the writes issued by saveNote(text) of a render that saw note?.id = hasId
SaveWrites(text, hasId) ==
    IF ~hasId \/ text = lastSavedContent THEN <<>>
    ELSE <<[kind |-> "save", content |-> text]>>

\* the cleanup of the effect "save note on unmount", which React runs when a
\* render delivers a new forceSave (its dependency content has changed): the
\* forceSave of the previous render clears the timer held by saveTimeoutRef
CleanupClears(pending, ref) == {t \in pending : t.id # ref}

\* ... and saves the content of the previous render if it is not the saved one
CleanupWrites(previous, hasId) ==
    IF previous # lastSavedContent THEN SaveWrites(previous, hasId) ELSE <<>>

\* the user types into the editor: onChange = updateContent, then the render
\* with the new content and the cleanup of the effect
PanelEdit(text) ==
    /\ loadPc = "done"
    /\ nextTimer <= MaxEdits
    /\ text # content
    /\ content' = text
    /\ saveTimeoutRef' = nextTimer
    /\ nextTimer' = nextTimer + 1
    /\ timers' = CleanupClears(
                    ClearSaveTimeout(timers)
                        \cup {[id |-> nextTimer, newContent |-> text, hasId |-> (note # NoNote)]},
                    nextTimer)
    /\ writes' = writes \o CleanupWrites(content, note # NoNote)
    /\ isSaving' = (isSaving \/ CleanupWrites(content, note # NoNote) # <<>>)
    /\ bursts' = IF timers = {} THEN bursts + 1 ELSE bursts
    /\ lastUpdate' = text
    /\ forceCancelled' = forceCancelled + 1
    /\ UNCHANGED <<note, isNoteLoading, lastSavedContent, dbNote, loadPc, immediateCalls,
                   writeFailed, debounceCalls, lastDebounced>>

\* the panel is torn down: the cleanup of the effect calls the forceSave of
\* the last render
PanelUnmount ==
    /\ loadPc = "done"
    /\ sendPc = "idle"
    /\ loadPc' = "unmounted"
    /\ sendPc' = "unmounted"
    /\ histPc' = "unmounted"
    /\ timers' = CleanupClears(timers, saveTimeoutRef)
    /\ writes' = writes \o CleanupWrites(content, note # NoNote)
    /\ isSaving' = (isSaving \/ CleanupWrites(content, note # NoNote) # <<>>)
    /\ forceCancelled' = forceCancelled + Cardinality(timers \ timers')
    /\ UNCHANGED <<note, content, isNoteLoading, lastSavedContent, saveTimeoutRef, nextTimer,
                   dbNote, immediateCalls, writeFailed, bursts, debounceCalls, lastUpdate,
                   lastDebounced>>
    /\ UNCHANGED <<messages, isLoading, isLoadingHistory, chatDb, channel, histData, nextId,
                   noteAction, noteThrew, apiCalls, elapsed>>
    /\ UNCHANGED sendLocals
    /\ UNCHANGED chatEnv
    /\ UNCHANGED panelVars

\* the record of a call of a note callback
NoteCall(kind, arg) ==
    [kind |-> kind, arg |-> arg, send |-> sendNo, held |-> content, set |-> content',
     captured |-> sentNote,
     persisted |-> \E i \in (Len(writes) + 1)..Len(writes') :
                       writes'[i] = [kind |-> "save", content |-> content']]

\* a note callback of the render that started the send sets the content and
\* saves it; the render that follows runs the cleanup of the effect when the
\* content has changed
PanelNoteCall(text) ==
    /\ content' = text
    /\ timers' = (IF text # content THEN CleanupClears(timers, saveTimeoutRef) ELSE timers)
    /\ writes' = writes \o SaveWrites(text, sentHasId)
                        \o (IF text # content THEN CleanupWrites(content, note # NoNote)
                            ELSE <<>>)
    /\ isSaving' = (isSaving \/ writes' # writes)
    /\ forceCancelled' = forceCancelled + Cardinality(timers \ timers')
    /\ UNCHANGED <<note, isNoteLoading, lastSavedContent, saveTimeoutRef, nextTimer, dbNote,
                   loadPc, immediateCalls, writeFailed, bursts, debounceCalls, lastUpdate,
                   lastDebounced>>

\* addAssistantMessage returns and sendMessage runs to its end: after a reply
\* of /api/chat, the note callbacks of the render that started the send
PanelAssistantDone(throws) ==
    \* setNoteContent and appendToNote do not throw: saveNote catches its errors
    /\ throws => after # "noteUpdate"
    /\ SaveAssistantDone(throws)
    /\ sentNote' = (IF sendPc' = "idle" THEN <<>> ELSE sentNote)
    /\ sentHasId' = (IF sendPc' = "idle" THEN FALSE ELSE sentHasId)
    /\ IF after = "noteUpdate" /\ ~throws /\ NoteActionOf(result) = "replace"
       THEN /\ PanelNoteCall(markAiAdditions(sentNote, result.updatedNote))
            /\ noteCalls' = Append(noteCalls, NoteCall("replace", result.updatedNote))
       ELSE IF after = "noteUpdate" /\ ~throws /\ NoteActionOf(result) = "append"
       THEN /\ PanelNoteCall(IF sentNote # <<>>
                                 THEN sentNote \o <<NL, NL>> \o ChatLog(userMessage, ReplyText)
                                 ELSE ChatLog(userMessage, ReplyText))
            /\ noteCalls' = Append(noteCalls,
                                   NoteCall("append", ChatLog(userMessage, ReplyText)))
       ELSE UNCHANGED <<noteVars, noteCalls>>

\* ------------------------------------------------------------------------
\* MarkdownPreview.renderLines (block-level renderer)
\* ------------------------------------------------------------------------
VARIABLES
    targetLines,   \* argument targetLines: the lines to render
    wrapAi,        \* argument wrapAi
    renderDone,    \* renderLines has returned
    localElements  \* the returned nodes

renderVars == <<targetLines, wrapAi, renderDone, localElements>>

\* String.prototype.startsWith
startsWith(str, pat) == Len(str) >= Len(pat) /\ SubSeq(str, 1, Len(pat)) = pat

Digits == {"0", "1", "2", "3", "4", "5", "6", "7", "8", "9"}

\* length of the run of characters of a set at the start of a string
RECURSIVE RunLength(_, _)
RunLength(str, chars) ==
    IF str # <<>> /\ Head(str) \in chars THEN 1 + RunLength(Tail(str), chars) ELSE 0

\* trimmed.match(/^\d+\.\s+(.*)/): <<TRUE, group 1>> or <<FALSE, "">>
NumberedMatch(trimmed) ==
    LET d == RunLength(trimmed, Digits)
        afterDot == SubSeq(trimmed, d + 2, Len(trimmed))
        w == RunLength(afterDot, Whitespace)
    IN  IF d >= 1 /\ Len(trimmed) > d /\ trimmed[d + 1] = "." /\ w >= 1
        THEN <<TRUE, SubSeq(afterDot, w + 1, Len(afterDot))>>
        ELSE <<FALSE, <<>>>>

\* listItems = null
NoList == [type |-> "none", items |-> <<>>]

\* pushElement(node)
pushElement(elements, node, wrap) == Append(elements, [wrapped |-> wrap, node |-> node])

\* flushList(): the elements after it
flushList(elements, listItems, wrap) ==
    IF listItems.type = "none" THEN elements
    ELSE pushElement(elements,
                     [tag |-> (IF listItems.type = "bullet" THEN "ul" ELSE "ol"),
                      items |-> listItems.items],
                     wrap)

\* variant: an open list of the other kind is continued
StartsNewList_OnlyWhenNone(listItems, type) == listItems.type = "none"

\* listItems?.type !== type
StartsNewList(listItems, type) == listItems.type # type

\* the node of a line that is neither a list item nor empty
BlockNode(trimmed) ==
    IF startsWith(trimmed, <<"#", "#", "#", SP>>)
    THEN [tag |-> "h3", items |-> <<Slice(trimmed, 4, Len(trimmed))>>]
    ELSE IF startsWith(trimmed, <<"#", "#", SP>>)
    THEN [tag |-> "h2", items |-> <<Slice(trimmed, 3, Len(trimmed))>>]
    ELSE IF startsWith(trimmed, <<"#", SP>>)
    THEN [tag |-> "h1", items |-> <<Slice(trimmed, 2, Len(trimmed))>>]
    ELSE IF startsWith(trimmed, <<">", SP>>)
    THEN [tag |-> "blockquote", items |-> <<Slice(trimmed, 2, Len(trimmed))>>]
    ELSE IF startsWith(trimmed, <<"-", "-", "-">>) \/ startsWith(trimmed, <<"*", "*", "*">>)
    THEN [tag |-> "hr", items |-> <<>>]
    ELSE [tag |-> "p", items |-> <<trimmed>>]

\* the loop of renderLines from line i on, and the final flushList()
RECURSIVE RenderFrom(_, _, _, _, _)
RenderFrom(lines, i, wrap, elements, listItems) ==
    IF i > Len(lines) THEN flushList(elements, listItems, wrap)
    ELSE
    LET trimmed == Trim(lines[i])
        numberedMatch == NumberedMatch(trimmed)
    IN  IF startsWith(trimmed, <<"-", SP>>) \/ startsWith(trimmed, <<"*", SP>>)
        THEN IF StartsNewList(listItems, "bullet")
             THEN RenderFrom(lines, i + 1, wrap, flushList(elements, listItems, wrap),
                             [type |-> "bullet",
                              items |-> <<Slice(trimmed, 2, Len(trimmed))>>])
             ELSE RenderFrom(lines, i + 1, wrap, elements,
                             [listItems EXCEPT !.items =
                                 Append(@, Slice(trimmed, 2, Len(trimmed)))])
        ELSE IF numberedMatch[1]
        THEN IF StartsNewList(listItems, "numbered")
             THEN RenderFrom(lines, i + 1, wrap, flushList(elements, listItems, wrap),
                             [type |-> "numbered", items |-> <<numberedMatch[2]>>])
             ELSE RenderFrom(lines, i + 1, wrap, elements,
                             [listItems EXCEPT !.items = Append(@, numberedMatch[2])])
        ELSE IF trimmed = <<>>
        THEN RenderFrom(lines, i + 1, wrap, flushList(elements, listItems, wrap), NoList)
        ELSE RenderFrom(lines, i + 1, wrap,
                        pushElement(flushList(elements, listItems, wrap),
                                    BlockNode(trimmed), wrap),
                        NoList)

renderLines(lines, wrap) == RenderFrom(lines, 1, wrap, <<>>, NoList)

\* lines of a note
NoteLines ==
    { <<"-", SP, "a">>, <<"-", SP, "b">>, <<SP, "*", SP, "d">>,
      <<"1", ".", SP, "c">>, <<>>, <<"p">>, <<"#", SP, "h">> }

RECURSIVE LinesUpTo(_)
LinesUpTo(n) ==
    IF n = 0 THEN {<<>>}
    ELSE LET S == LinesUpTo(n - 1)
         IN  S \cup {Append(ls, l) : ls \in {t \in S : Len(t) = n - 1}, l \in NoteLines}

RenderStart ==
    /\ targetLines \in LinesUpTo(MaxLines)
    /\ wrapAi \in BOOLEAN
    /\ renderDone = FALSE
    /\ localElements = <<>>

RenderIdle ==
    /\ targetLines = <<>>
    /\ wrapAi = FALSE
    /\ renderDone = TRUE
    /\ localElements = <<>>

RenderLines ==
    /\ ~renderDone
    /\ renderDone' = TRUE
    /\ localElements' = renderLines(targetLines, wrapAi)
    /\ UNCHANGED <<targetLines, wrapAi>>

\* ------------------------------------------------------------------------
\* MarkdownPreview (scan for the delimiter lines)
\* ------------------------------------------------------------------------
VARIABLES
    previewLines,     \* lines = content.split('\n')
    scanned,          \* number of lines the for loop has handled
    scanDone,         \* the final flushes have run
    inAiBlock,        \* let inAiBlock
    normalBuffer,     \* let normalBuffer
    aiBuffer,         \* let aiBuffer
    previewElements   \* const elements

previewVars == <<previewLines, scanned, scanDone, inAiBlock, normalBuffer, aiBuffer,
                 previewElements>>

\* variant: the comparison without trim()
IsOpenDelimiter_NoTrim(line) == line = OpenLine

\* line.trim() === ':::ai'
IsOpenDelimiter(line) == Trim(line) = OpenLine

\* line.trim() === ':::'
IsCloseDelimiter(line) == Trim(line) = CloseLine

\* flushNormal() / flushAi(): the elements after it
flushBuffer(rendered, buffer, wrap) ==
    IF buffer = <<>> THEN rendered ELSE rendered \o renderLines(buffer, wrap)

\* the line at place at of a note, by its shape; text lines carry their place
LineOfShape(shape, at) ==
    LET mark == <<"a", "b", "c", "d", "e", "f">>[at]
    IN  CASE shape = "open" -> OpenLine
          [] shape = "openPadded" -> <<SP>> \o OpenLine
          [] shape = "close" -> CloseLine
          [] shape = "blank" -> <<>>
          [] shape = "bullet" -> <<"-", SP, mark>>
          [] OTHER -> <<"p", mark>>

LineShapes == {"open", "openPadded", "close", "blank", "bullet", "paragraph"}

\* the notes of n lines
PreviewNotes(n) == {[i \in 1..n |-> LineOfShape(shapes[i], i)] : shapes \in [1..n -> LineShapes]}

PreviewStart ==
    /\ previewLines \in UNION {PreviewNotes(n) : n \in 0..MaxPreviewLines}
    /\ scanned = 0
    /\ scanDone = FALSE
    /\ inAiBlock = FALSE
    /\ normalBuffer = <<>>
    /\ aiBuffer = <<>>
    /\ previewElements = <<>>

PreviewIdle ==
    /\ previewLines = <<>>
    /\ scanned = 0
    /\ scanDone = TRUE
    /\ inAiBlock = FALSE
    /\ normalBuffer = <<>>
    /\ aiBuffer = <<>>
    /\ previewElements = <<>>

\* one turn of the for loop over the lines
ScanLine ==
    /\ ~scanDone
    /\ scanned < Len(previewLines)
    /\ scanned' = scanned + 1
    /\ LET line == previewLines[scanned + 1]
       IN  IF IsOpenDelimiter(line)
           THEN /\ previewElements' =
                       flushBuffer(flushBuffer(previewElements, normalBuffer, FALSE),
                                   aiBuffer, TRUE)
                /\ normalBuffer' = <<>>
                /\ aiBuffer' = <<>>
                /\ inAiBlock' = TRUE
           ELSE IF IsCloseDelimiter(line)
           THEN /\ previewElements' = flushBuffer(previewElements, aiBuffer, TRUE)
                /\ aiBuffer' = <<>>
                /\ inAiBlock' = FALSE
                /\ UNCHANGED normalBuffer
           ELSE IF inAiBlock
           THEN /\ aiBuffer' = Append(aiBuffer, line)
                /\ UNCHANGED <<previewElements, normalBuffer, inAiBlock>>
           ELSE /\ normalBuffer' = Append(normalBuffer, line)
                /\ UNCHANGED <<previewElements, aiBuffer, inAiBlock>>
    /\ UNCHANGED <<previewLines, scanDone>>

\* flushNormal() and flushAi() after the loop
ScanEnd ==
    /\ ~scanDone
    /\ scanned = Len(previewLines)
    /\ scanDone' = TRUE
    /\ previewElements' =
           flushBuffer(flushBuffer(previewElements, normalBuffer, FALSE), aiBuffer, TRUE)
    /\ normalBuffer' = <<>>
    /\ aiBuffer' = <<>>
    /\ UNCHANGED <<previewLines, scanned, inAiBlock>>

\* ------------------------------------------------------------------------
\* Annotation blocks of the note text (assistant replace, transcript append,
\* auto-expiry strip)
\* ------------------------------------------------------------------------
VARIABLES
    noteText,           \* the note text held by the panel
    markOps             \* number of operations applied to it

markVars == <<noteText, markOps>>

\* str.slice(0, at) + piece + str.slice(at)
InsertAt(str, at, piece) == SubSeq(str, 1, at) \o piece \o SubSeq(str, at + 1, Len(str))

\* text.split('\n')
RECURSIVE SplitLines(_)
SplitLines(text) ==
    IF \A i \in 1..Len(text) : text[i] # NL
    THEN <<text>>
    ELSE LET at == CHOOSE i \in 1..Len(text) :
                       text[i] = NL /\ \A j \in 1..(i - 1) : text[j] # NL
         IN  <<SubSeq(text, 1, at - 1)>> \o SplitLines(SubSeq(text, at + 1, Len(text)))

\* the delimiter lines of a text, in order
RECURSIVE DelimitersOf(_)
DelimitersOf(lines) ==
    IF lines = <<>> THEN <<>>
    ELSE LET trimmed == Trim(Head(lines))
         IN  (IF trimmed = OpenLine THEN <<"open">>
              ELSE IF trimmed = CloseLine THEN <<"close">>
              ELSE <<>>) \o DelimitersOf(Tail(lines))

\* text the assistant adds to the note
AssistantAdds == {<<"c">>, <<NL, "c">>}

\* result.updatedNote: the note the assistant received with its delimiter
\* lines kept and a piece of text added to it
UpdatedNotesOf(currentNote) ==
    {u \in {InsertAt(currentNote, at, piece) :
                at \in 0..Len(currentNote), piece \in AssistantAdds} :
        DelimitersOf(SplitLines(u)) = DelimitersOf(SplitLines(currentNote))}

\* note texts typed by the user before the assistant acts
TypedNotes == {<<>>, <<"a">>, <<"b">>, <<"a", NL, "b">>}

MarkStart ==
    /\ noteText \in TypedNotes
    /\ markOps = 0

MarkIdle ==
    /\ noteText = <<>>
    /\ markOps = 0

\* onNoteUpdate(markAiAdditions(currentNote, result.updatedNote))
NoteReplace(updatedNote) ==
    /\ markOps < MaxMarkOps
    /\ markOps' = markOps + 1
    /\ noteText' = markAiAdditions(noteText, updatedNote)

\* onNoteAppend(chatLog): content ? `${content}\n\n${text}` : text
NoteAppend ==
    /\ markOps < MaxMarkOps
    /\ markOps' = markOps + 1
    /\ LET chatLog == ChatLog(<<"h", "i">>, ReplyText)
       IN  noteText' = (IF noteText # <<>> THEN noteText \o <<NL, NL>> \o chatLog
                        ELSE chatLog)

\* the fadeout timer fires: onChange(removeAiMarkers(content))
MarkerExpiry ==
    /\ markOps < MaxMarkOps
    /\ Includes(noteText, OpenLine)
    /\ removeAiMarkers(noteText) # noteText
    /\ markOps' = markOps + 1
    /\ noteText' = removeAiMarkers(noteText)

\* ------------------------------------------------------------------------
\* SummaryPanel under MainLayout: another session is selected
\* ------------------------------------------------------------------------
\* MainLayout renders the one SummaryPanel with sessionId={currentSessionId}
\* and no key, so the instances of useSessionNote and useChat, their state
\* and the closures of a running sendMessage outlive the selection of
\* another session.  Loads and writes succeed in this part; their failures
\* are the subject of the parts above.
VARIABLES
    sessionId,         \* prop sessionId: MainLayout's currentSessionId
    sessionNote,       \* useState note of useSessionNote: the session of the row
    sessionContent,    \* useState content of useSessionNote
    sessionLastSaved,  \* useRef lastSavedContent
    noteLoads,         \* sessions whose fetchOrCreateNote is awaiting its fetch
    noteRows,          \* table notes: the content of the note of each session
    sessionMessages,   \* useState messages of useChat
    historyLoads,      \* sessions whose loadMessages is awaiting its select
    chatRows,          \* table chat_messages: the rows of each session
    pendingSend,       \* the running sendMessage: what its closure captured
    switches,          \* number of selections made
    typed              \* number of edits typed

switchVars == <<sessionId, sessionNote, sessionContent, sessionLastSaved, noteLoads,
                noteRows, sessionMessages, historyLoads, chatRows, pendingSend,
                switches, typed>>

Sessions == {"A", "B"}
NoSession == "none"
NoSend == [session |-> NoSession, currentNote |-> <<>>, noteId |-> NoSession]

\* the note each session holds before the panel is shown
StoredNoteOf(s) == IF s = "A" THEN <<"x">> ELSE <<"y">>

\* a row of chat_messages
ChatRow(s, n, role) == [session_id |-> s, n |-> n, role |-> role]

\* saveNote of a render whose note is the row of session id:
\* if (!note?.id || newContent === lastSavedContent.current) return; update
SaveIssued(id, text, ref) ==
    IF id = NoSession \/ text = ref THEN <<>>
    ELSE << [id |-> id, content |-> text] >>

\* the updates reach the table in the order they were issued
RECURSIVE RowsAfter(_, _)
RowsAfter(rows, issued) ==
    IF issued = <<>> THEN rows
    ELSE RowsAfter([rows EXCEPT ![Head(issued).id] = Head(issued).content], Tail(issued))

\* lastSavedContent.current = newContent after each successful update
RefAfter(ref, issued) == IF issued = <<>> THEN ref ELSE issued[Len(issued)].content

\* forceSave of the previous render, run by the cleanup of the effect of
\* Panels.tsx 55-59 when the content or the note id has changed
CleanupIssued(changed, ref) ==
    IF changed /\ sessionContent # ref
    THEN SaveIssued(sessionNote, sessionContent, ref)
    ELSE <<>>

\* the panel has just been mounted with session A selected
SwitchStart ==
    /\ sessionId = "A"
    /\ sessionNote = NoSession
    /\ sessionContent = <<>>
    /\ sessionLastSaved = <<>>
    /\ noteLoads = {"A"}
    /\ noteRows = [s \in Sessions |-> StoredNoteOf(s)]
    /\ sessionMessages = <<>>
    /\ historyLoads = {"A"}
    /\ chatRows = [s \in Sessions |-> << ChatRow(s, 1, "user"), ChatRow(s, 2, "assistant") >>]
    /\ pendingSend = NoSend
    /\ switches = 0
    /\ typed = 0

SwitchIdle ==
    /\ sessionId = NoSession
    /\ sessionNote = NoSession
    /\ sessionContent = <<>>
    /\ sessionLastSaved = <<>>
    /\ noteLoads = {}
    /\ noteRows = [s \in Sessions |-> <<>>]
    /\ sessionMessages = <<>>
    /\ historyLoads = {}
    /\ chatRows = [s \in Sessions |-> <<>>]
    /\ pendingSend = NoSend
    /\ switches = 0
    /\ typed = 0

\* onSelectSession(s): the load effects of both hooks run again
SelectSession(s) ==
    /\ switches < MaxSwitches
    /\ s # sessionId
    /\ sessionId' = s
    /\ switches' = switches + 1
    /\ noteLoads' = noteLoads \cup {s}
    /\ historyLoads' = historyLoads \cup {s}
    /\ UNCHANGED <<sessionNote, sessionContent, sessionLastSaved, noteRows,
                   sessionMessages, chatRows, pendingSend, typed>>

\* the fetch of fetchOrCreateNote for session s returns the row: setNote,
\* setContent, lastSavedContent.current = content, rendered as one batch
NoteLoadDone(s) ==
    /\ s \in noteLoads
    /\ noteLoads' = noteLoads \ {s}
    /\ sessionNote' = s
    /\ sessionContent' = noteRows[s]
    /\ LET issued == CleanupIssued(sessionNote # s \/ sessionContent # noteRows[s],
                                   noteRows[s])
       IN  /\ noteRows' = RowsAfter(noteRows, issued)
           /\ sessionLastSaved' = RefAfter(noteRows[s], issued)
    /\ UNCHANGED <<sessionId, sessionMessages, historyLoads, chatRows, pendingSend,
                   switches, typed>>

\* the select of loadMessages for session s returns: setMessages(data)
HistoryLoadDone(s) ==
    /\ s \in historyLoads
    /\ historyLoads' = historyLoads \ {s}
    /\ sessionMessages' = chatRows[s]
    /\ UNCHANGED <<sessionId, sessionNote, sessionContent, sessionLastSaved, noteLoads,
                   noteRows, chatRows, pendingSend, switches, typed>>

\* updateContent(newContent) from the editor; the timer it arms is cleared by
\* the cleanup of the render that follows
TypeText ==
    /\ typed < MaxTyped
    /\ typed' = typed + 1
    /\ sessionContent' = sessionContent \o <<"u">>
    /\ LET issued == CleanupIssued(TRUE, sessionLastSaved)
       IN  /\ noteRows' = RowsAfter(noteRows, issued)
           /\ sessionLastSaved' = RefAfter(sessionLastSaved, issued)
    /\ UNCHANGED <<sessionId, sessionNote, noteLoads, sessionMessages, historyLoads,
                   chatRows, pendingSend, switches>>

\* sendMessage is accepted: the user turn is inserted and shown, the request
\* to /api/chat carries currentNote
SendStarts ==
    /\ pendingSend = NoSend
    /\ Len(chatRows[sessionId]) < MaxRows
    /\ pendingSend' = [session |-> sessionId, currentNote |-> sessionContent,
                       noteId |-> sessionNote]
    /\ LET row == ChatRow(sessionId, Len(chatRows[sessionId]) + 1, "user")
       IN  /\ chatRows' = [chatRows EXCEPT ![sessionId] = Append(@, row)]
           /\ sessionMessages' = Append(sessionMessages, row)
    /\ UNCHANGED <<sessionId, sessionNote, sessionContent, sessionLastSaved, noteLoads,
                   noteRows, historyLoads, switches, typed>>

\* the note of the reply, handed to the callbacks of the render of the send
NoteOfReply(kind) ==
    IF kind = "replace"
    THEN markAiAdditions(pendingSend.currentNote, pendingSend.currentNote \o <<NL, "c">>)
    ELSE LET chatLog == ChatLog(<<"h", "i">>, ReplyText)
         IN  IF pendingSend.currentNote # <<>>
             THEN pendingSend.currentNote \o <<NL, NL>> \o chatLog
             ELSE chatLog

\* /api/chat answers: addAssistantMessage, then onNoteUpdate / onNoteAppend
ReplyDone(kind) ==
    /\ pendingSend # NoSend
    /\ pendingSend' = NoSend
    /\ LET row == ChatRow(pendingSend.session, Len(chatRows[pendingSend.session]) + 1,
                          "assistant")
       IN  /\ chatRows' = [chatRows EXCEPT ![pendingSend.session] = Append(@, row)]
           /\ sessionMessages' = Append(sessionMessages, row)
    /\ IF kind = "none"
       THEN UNCHANGED <<sessionContent, noteRows, sessionLastSaved>>
       ELSE LET text == NoteOfReply(kind)
                issued == SaveIssued(pendingSend.noteId, text, sessionLastSaved)
                              \o CleanupIssued(text # sessionContent, sessionLastSaved)
            IN  /\ sessionContent' = text
                /\ noteRows' = RowsAfter(noteRows, issued)
                /\ sessionLastSaved' = RefAfter(sessionLastSaved, issued)
    /\ UNCHANGED <<sessionId, sessionNote, noteLoads, historyLoads, switches, typed>>

\* all variables of the model
vars == <<diffVars, noteVars, chatVars, editorVars, panelVars, renderVars, markVars, previewVars, switchVars>>

\* ------------------------------------------------------------------------
\* Specifications
\* ------------------------------------------------------------------------
DiffStart ==
    /\ \E p \in DiffInputs : oldContent = p[1] /\ newContent = p[2]
    /\ diffDone = FALSE
    /\ prefix = <<>>
    /\ addedContent = <<>>
    /\ suffix = <<>>
    /\ annotated = <<>>

DiffIdle ==
    /\ oldContent = <<>>
    /\ newContent = <<>>
    /\ diffDone = TRUE
    /\ prefix = <<>>
    /\ addedContent = <<>>
    /\ suffix = <<>>
    /\ annotated = <<>>

MarkAiAdditions ==
    /\ ~diffDone
    /\ diffDone' = TRUE
    /\ prefix' = IF OldIsBlank(oldContent) THEN <<>> ELSE DiffPrefix(oldContent, newContent)
    /\ addedContent' = IF OldIsBlank(oldContent) THEN <<>> ELSE DiffAdded(oldContent, newContent)
    /\ suffix' = IF OldIsBlank(oldContent) THEN <<>> ELSE DiffSuffix(oldContent, newContent)
    /\ annotated' = markAiAdditions(oldContent, newContent)
    /\ UNCHANGED <<oldContent, newContent>>

InitDiff == DiffStart /\ NoteIdle /\ ChatIdle /\ EditorIdle /\ PanelIdle /\ RenderIdle /\ MarkIdle /\ PreviewIdle /\ SwitchIdle

NextDiff == MarkAiAdditions /\ UNCHANGED <<noteVars, chatVars, editorVars, panelVars, renderVars, markVars, previewVars, switchVars>>

SpecDiff == InitDiff /\ [][NextDiff]_vars

InitNote == NoteStart /\ DiffIdle /\ ChatIdle /\ EditorIdle /\ PanelIdle /\ RenderIdle /\ MarkIdle /\ PreviewIdle /\ SwitchIdle

NextNote ==
    \/ \E fetchOk \in BOOLEAN : FetchDone(fetchOk) /\ UNCHANGED <<diffVars, chatVars, editorVars, panelVars, renderVars, markVars, previewVars, switchVars>>
    \/ \E c \in NoteTexts : UpdateContent(c) /\ UNCHANGED <<diffVars, chatVars, editorVars, panelVars, renderVars, markVars, previewVars, switchVars>>
    \/ DebounceFire /\ UNCHANGED <<diffVars, chatVars, editorVars, panelVars, renderVars, markVars, previewVars, switchVars>>
    \/ \E t \in AppendTexts : AppendToNote(t) /\ UNCHANGED <<diffVars, chatVars, editorVars, panelVars, renderVars, markVars, previewVars, switchVars>>
    \/ \E c \in NoteTexts : SetNoteContent(c) /\ UNCHANGED <<diffVars, chatVars, editorVars, panelVars, renderVars, markVars, previewVars, switchVars>>
    \/ ForceSave /\ UNCHANGED <<diffVars, chatVars, editorVars, panelVars, renderVars, markVars, previewVars, switchVars>>
    \/ \E ok \in BOOLEAN : WriteDone(ok) /\ UNCHANGED <<diffVars, chatVars, editorVars, panelVars, renderVars, markVars, previewVars, switchVars>>

SpecNote == InitNote /\ [][NextNote]_vars

InitChat == ChatStart /\ DiffIdle /\ NoteIdle /\ EditorIdle /\ PanelIdle /\ RenderIdle /\ MarkIdle /\ PreviewIdle /\ SwitchIdle

NextChat ==
    \/ HistoryQuery /\ UNCHANGED <<diffVars, noteVars, editorVars, panelVars, renderVars, markVars, previewVars, switchVars>>
    \/ \E ok \in BOOLEAN : HistoryDone(ok) /\ UNCHANGED <<diffVars, noteVars, editorVars, panelVars, renderVars, markVars, previewVars, switchVars>>
    \/ RealtimeInsert /\ UNCHANGED <<diffVars, noteVars, editorVars, panelVars, renderVars, markVars, previewVars, switchVars>>
    \/ Tick /\ UNCHANGED <<diffVars, noteVars, editorVars, panelVars, renderVars, markVars, previewVars, switchVars>>
    \/ \E text \in UserMessages : SendMessage(text) /\ UNCHANGED <<diffVars, noteVars, editorVars, panelVars, renderVars, markVars, previewVars, switchVars>>
    \/ \E ok \in BOOLEAN : InsertMessage(ok) /\ UNCHANGED <<diffVars, noteVars, editorVars, panelVars, renderVars, markVars, previewVars, switchVars>>
    \/ SaveUserDone /\ UNCHANGED <<diffVars, noteVars, editorVars, panelVars, renderVars, markVars, previewVars, switchVars>>
    \/ \E outcome \in ChatOutcomes, m \in BOOLEAN, u \in UpdatedNotes :
          ChatResponse(outcome, [noteWasModified |-> m, updatedNote |-> u])
          /\ UNCHANGED <<diffVars, noteVars, editorVars, panelVars, renderVars, markVars, previewVars, switchVars>>
    \/ \E read \in BOOLEAN : ChatBody(read) /\ UNCHANGED <<diffVars, noteVars, editorVars, panelVars, renderVars, markVars, previewVars, switchVars>>
    \/ ChatAbort /\ UNCHANGED <<diffVars, noteVars, editorVars, panelVars, renderVars, markVars, previewVars, switchVars>>
    \/ ChatTick /\ UNCHANGED <<diffVars, noteVars, editorVars, panelVars, renderVars, markVars, previewVars, switchVars>>
    \/ \E ok \in BOOLEAN : SummarizeResponse(ok) /\ UNCHANGED <<diffVars, noteVars, editorVars, panelVars, renderVars, markVars, previewVars, switchVars>>
    \/ InsertSummaryDone /\ UNCHANGED <<diffVars, noteVars, editorVars, panelVars, renderVars, markVars, previewVars, switchVars>>
    \/ \E throws \in BOOLEAN : SaveAssistantDone(throws) /\ UNCHANGED <<diffVars, noteVars, editorVars, panelVars, renderVars, markVars, previewVars, switchVars>>

SpecChat == InitChat /\ [][NextChat]_vars

InitHistory == ChatStart /\ DiffIdle /\ NoteIdle /\ EditorIdle /\ PanelIdle /\ RenderIdle /\ MarkIdle /\ PreviewIdle /\ SwitchIdle

\* the history of one session shared with other clients: load, realtime
\* deliveries, inserts of other clients and the turns of a plain chat send
NextHistory ==
    \/ HistoryQuery /\ UNCHANGED <<diffVars, noteVars, editorVars, panelVars, renderVars, markVars, previewVars, switchVars>>
    \/ \E ok \in BOOLEAN : HistoryDone(ok) /\ UNCHANGED <<diffVars, noteVars, editorVars, panelVars, renderVars, markVars, previewVars, switchVars>>
    \/ RealtimeInsert /\ UNCHANGED <<diffVars, noteVars, editorVars, panelVars, renderVars, markVars, previewVars, switchVars>>
    \/ RemoteInsert /\ UNCHANGED <<diffVars, noteVars, editorVars, panelVars, renderVars, markVars, previewVars, switchVars>>
    \/ Tick /\ UNCHANGED <<diffVars, noteVars, editorVars, panelVars, renderVars, markVars, previewVars, switchVars>>
    \/ SendMessage(<<"h","i">>) /\ UNCHANGED <<diffVars, noteVars, editorVars, panelVars, renderVars, markVars, previewVars, switchVars>>
    \/ \E ok \in BOOLEAN : InsertMessage(ok) /\ UNCHANGED <<diffVars, noteVars, editorVars, panelVars, renderVars, markVars, previewVars, switchVars>>
    \/ SaveUserDone /\ UNCHANGED <<diffVars, noteVars, editorVars, panelVars, renderVars, markVars, previewVars, switchVars>>
    \/ \E outcome \in ChatOutcomes : ChatResponse(outcome, NoResult)
          /\ UNCHANGED <<diffVars, noteVars, editorVars, panelVars, renderVars, markVars, previewVars, switchVars>>
    \/ \E read \in BOOLEAN : ChatBody(read) /\ UNCHANGED <<diffVars, noteVars, editorVars, panelVars, renderVars, markVars, previewVars, switchVars>>
    \/ \E throws \in BOOLEAN : SaveAssistantDone(throws) /\ UNCHANGED <<diffVars, noteVars, editorVars, panelVars, renderVars, markVars, previewVars, switchVars>>

SpecHistory == InitHistory /\ [][NextHistory]_vars

InitMarkers == MarkStart /\ DiffIdle /\ NoteIdle /\ ChatIdle /\ EditorIdle /\ PanelIdle /\ RenderIdle /\ PreviewIdle /\ SwitchIdle

NextMarkers ==
    \/ \E u \in UpdatedNotesOf(noteText) : NoteReplace(u) /\ UNCHANGED <<diffVars, noteVars, chatVars, editorVars, panelVars, renderVars, previewVars, switchVars>>
    \/ NoteAppend /\ UNCHANGED <<diffVars, noteVars, chatVars, editorVars, panelVars, renderVars, previewVars, switchVars>>
    \/ MarkerExpiry /\ UNCHANGED <<diffVars, noteVars, chatVars, editorVars, panelVars, renderVars, previewVars, switchVars>>

SpecMarkers == InitMarkers /\ [][NextMarkers]_vars

InitPreview == PreviewStart /\ DiffIdle /\ NoteIdle /\ ChatIdle /\ EditorIdle /\ PanelIdle /\ RenderIdle /\ MarkIdle /\ SwitchIdle

NextPreview ==
    \/ ScanLine /\ UNCHANGED <<diffVars, noteVars, chatVars, editorVars, panelVars, renderVars, markVars, switchVars>>
    \/ ScanEnd /\ UNCHANGED <<diffVars, noteVars, chatVars, editorVars, panelVars, renderVars, markVars, switchVars>>

SpecPreview == InitPreview /\ [][NextPreview]_vars

InitSwitch == SwitchStart /\ DiffIdle /\ NoteIdle /\ ChatIdle /\ EditorIdle /\ PanelIdle /\ RenderIdle /\ MarkIdle /\ PreviewIdle

NextSwitch ==
    \/ \E s \in Sessions : SelectSession(s) /\ UNCHANGED <<diffVars, noteVars, chatVars, editorVars, panelVars, renderVars, markVars, previewVars>>
    \/ \E s \in Sessions : NoteLoadDone(s) /\ UNCHANGED <<diffVars, noteVars, chatVars, editorVars, panelVars, renderVars, markVars, previewVars>>
    \/ \E s \in Sessions : HistoryLoadDone(s) /\ UNCHANGED <<diffVars, noteVars, chatVars, editorVars, panelVars, renderVars, markVars, previewVars>>
    \/ TypeText /\ UNCHANGED <<diffVars, noteVars, chatVars, editorVars, panelVars, renderVars, markVars, previewVars>>
    \/ SendStarts /\ UNCHANGED <<diffVars, noteVars, chatVars, editorVars, panelVars, renderVars, markVars, previewVars>>
    \/ \E kind \in {"none", "replace", "append"} : ReplyDone(kind) /\ UNCHANGED <<diffVars, noteVars, chatVars, editorVars, panelVars, renderVars, markVars, previewVars>>

SpecSwitch == InitSwitch /\ [][NextSwitch]_vars

InitEditor == EditorStart /\ DiffIdle /\ NoteIdle /\ ChatIdle /\ PanelIdle /\ RenderIdle /\ MarkIdle /\ PreviewIdle /\ SwitchIdle

NextEditor ==
    \/ \E text \in EditorTexts : ContentArrives(text) /\ UNCHANGED <<diffVars, noteVars, chatVars, panelVars, renderVars, markVars, previewVars, switchVars>>
    \/ HandlerChanges /\ UNCHANGED <<diffVars, noteVars, chatVars, panelVars, renderVars, markVars, previewVars, switchVars>>
    \/ EditorTick /\ UNCHANGED <<diffVars, noteVars, chatVars, panelVars, renderVars, markVars, previewVars, switchVars>>
    \/ FadeoutFire /\ UNCHANGED <<diffVars, noteVars, chatVars, panelVars, renderVars, markVars, previewVars, switchVars>>

SpecEditor == InitEditor /\ [][NextEditor]_vars

InitSend == SendStart /\ DiffIdle /\ NoteIdle /\ EditorIdle /\ PanelIdle /\ RenderIdle /\ MarkIdle /\ PreviewIdle /\ SwitchIdle

NextSend ==
    \/ \E text \in UserMessages : SendMessage(text) /\ UNCHANGED <<diffVars, noteVars, editorVars, panelVars, renderVars, markVars, previewVars, switchVars>>
    \/ \E ok \in BOOLEAN : InsertMessage(ok) /\ UNCHANGED <<diffVars, noteVars, editorVars, panelVars, renderVars, markVars, previewVars, switchVars>>
    \/ SaveUserDone /\ UNCHANGED <<diffVars, noteVars, editorVars, panelVars, renderVars, markVars, previewVars, switchVars>>
    \/ \E outcome \in ChatOutcomes, m \in BOOLEAN, u \in UpdatedNotes :
          ChatResponse(outcome, [noteWasModified |-> m, updatedNote |-> u])
          /\ UNCHANGED <<diffVars, noteVars, editorVars, panelVars, renderVars, markVars, previewVars, switchVars>>
    \/ \E read \in BOOLEAN : ChatBody(read) /\ UNCHANGED <<diffVars, noteVars, editorVars, panelVars, renderVars, markVars, previewVars, switchVars>>
    \/ ChatAbort /\ UNCHANGED <<diffVars, noteVars, editorVars, panelVars, renderVars, markVars, previewVars, switchVars>>
    \/ ChatTick /\ UNCHANGED <<diffVars, noteVars, editorVars, panelVars, renderVars, markVars, previewVars, switchVars>>
    \/ \E ok \in BOOLEAN : SummarizeResponse(ok) /\ UNCHANGED <<diffVars, noteVars, editorVars, panelVars, renderVars, markVars, previewVars, switchVars>>
    \/ InsertSummaryDone /\ UNCHANGED <<diffVars, noteVars, editorVars, panelVars, renderVars, markVars, previewVars, switchVars>>
    \/ \E throws \in BOOLEAN : SaveAssistantDone(throws) /\ UNCHANGED <<diffVars, noteVars, editorVars, panelVars, renderVars, markVars, previewVars, switchVars>>

SpecSend == InitSend /\ [][NextSend]_vars

InitPanel == PanelStart /\ DiffIdle /\ EditorIdle /\ RenderIdle /\ MarkIdle /\ PreviewIdle /\ SwitchIdle

NextPanel ==
    \/ \E text \in UserMessages : PanelSend(text) /\ UNCHANGED <<diffVars, noteVars, editorVars, renderVars, markVars, previewVars, switchVars>>
    \/ \E ok \in BOOLEAN : InsertMessage(ok) /\ UNCHANGED <<diffVars, noteVars, editorVars, panelVars, renderVars, markVars, previewVars, switchVars>>
    \/ SaveUserDone /\ UNCHANGED <<diffVars, noteVars, editorVars, panelVars, renderVars, markVars, previewVars, switchVars>>
    \/ \E outcome \in ChatOutcomes, m \in BOOLEAN, u \in UpdatedNotes :
          ChatResponse(outcome, [noteWasModified |-> m, updatedNote |-> u])
          /\ UNCHANGED <<diffVars, noteVars, editorVars, panelVars, renderVars, markVars, previewVars, switchVars>>
    \/ \E read \in BOOLEAN : ChatBody(read) /\ UNCHANGED <<diffVars, noteVars, editorVars, panelVars, renderVars, markVars, previewVars, switchVars>>
    \/ ChatAbort /\ UNCHANGED <<diffVars, noteVars, editorVars, panelVars, renderVars, markVars, previewVars, switchVars>>
    \/ ChatTick /\ UNCHANGED <<diffVars, noteVars, editorVars, panelVars, renderVars, markVars, previewVars, switchVars>>
    \/ \E ok \in BOOLEAN : SummarizeResponse(ok) /\ UNCHANGED <<diffVars, noteVars, editorVars, panelVars, renderVars, markVars, previewVars, switchVars>>
    \/ InsertSummaryDone /\ UNCHANGED <<diffVars, noteVars, editorVars, panelVars, renderVars, markVars, previewVars, switchVars>>
    \/ \E throws \in BOOLEAN : PanelAssistantDone(throws) /\ UNCHANGED <<diffVars, editorVars, renderVars, markVars, previewVars, switchVars>>
    \/ \E c \in PanelEdits : PanelEdit(c) /\ UNCHANGED <<diffVars, chatVars, editorVars, panelVars, renderVars, markVars, previewVars, switchVars>>
    \/ PanelUnmount /\ UNCHANGED <<diffVars, editorVars, renderVars, markVars, previewVars, switchVars>>
    \/ \E ok \in BOOLEAN : WriteDone(ok) /\ UNCHANGED <<diffVars, chatVars, editorVars, panelVars, renderVars, markVars, previewVars, switchVars>>

SpecPanel == InitPanel /\ [][NextPanel]_vars

InitRender == RenderStart /\ DiffIdle /\ NoteIdle /\ ChatIdle /\ EditorIdle /\ PanelIdle /\ MarkIdle /\ PreviewIdle /\ SwitchIdle

NextRender == RenderLines /\ UNCHANGED <<diffVars, noteVars, chatVars, editorVars, panelVars, markVars, previewVars, switchVars>>

SpecRender == InitRender /\ [][NextRender]_vars

\* ------------------------------------------------------------------------
\* Properties of markAiAdditions
\* ------------------------------------------------------------------------
BlankStr(s) == \A i \in 1..Len(s) : s[i] \in Whitespace

Contains(s, pat) ==
    \E i \in 1..(Len(s) - Len(pat) + 1) : SubSeq(s, i, i + Len(pat) - 1) = pat

StartsWith(s, pat) == Len(s) >= Len(pat) /\ SubSeq(s, 1, Len(pat)) = pat

EndsWith(s, pat) == Len(s) >= Len(pat) /\ SubSeq(s, Len(s) - Len(pat) + 1, Len(s)) = pat

\* least index at which pat occurs in s, 0 when it does not occur
FindSub(s, pat) ==
    IF Contains(s, pat)
    THEN CHOOSE i \in 1..(Len(s) - Len(pat) + 1) :
            /\ SubSeq(s, i, i + Len(pat) - 1) = pat
            /\ \A j \in 1..(i - 1) : SubSeq(s, j, j + Len(pat) - 1) # pat
    ELSE 0

RECURSIVE NLRunBack(_, _)
NLRunBack(s, i) == IF i >= 1 /\ s[i] = NL THEN 1 + NLRunBack(s, i - 1) ELSE 0

RECURSIVE NLRunFwd(_, _)
NLRunFwd(s, i) == IF i <= Len(s) /\ s[i] = NL THEN 1 + NLRunFwd(s, i + 1) ELSE 0

\* declarative longest common prefix, and longest common suffix of what
\* remains after the prefix
CommonPrefixLen(a, b) ==
    CHOOSE k \in 0..Min(Len(a), Len(b)) :
        /\ SubSeq(a, 1, k) = SubSeq(b, 1, k)
        /\ k = Min(Len(a), Len(b)) \/ a[k + 1] # b[k + 1]

CommonSuffixLenAfter(a, b, p) ==
    CHOOSE k \in 0..Min(Len(a) - p, Len(b) - p) :
        /\ SubSeq(a, Len(a) - k + 1, Len(a)) = SubSeq(b, Len(b) - k + 1, Len(b))
        /\ k = Min(Len(a) - p, Len(b) - p) \/ a[Len(a) - k] # b[Len(b) - k]

AddedRegion(a, b) ==
    SubSeq(b, CommonPrefixLen(a, b) + 1,
           Len(b) - CommonSuffixLenAfter(a, b, CommonPrefixLen(a, b)))

\* the annotator took the wrapping branch
MarkerInserted == diffDone /\ Contains(annotated, OpenLine) /\ ~Contains(newContent, OpenLine)

\* number of newlines directly before the opening delimiter line
NewlinesBeforeOpen == NLRunBack(annotated, FindSub(annotated, OpenLine) - 1)

\* number of newlines directly after the closing delimiter line
NewlinesAfterClose ==
    NLRunFwd(annotated, FindSub(annotated, <<NL>> \o CloseLine \o <<NL>>) + 1 + Len(CloseLine))

Str_hello_ == <<"h","e","l","l","o"," ">>
Str_world == <<"w","o","r","l","d">>
Str__world == <<" ","w","o","r","l","d">>
Str_brave_new == <<"b","r","a","v","e"," ","n","e","w">>
Str_brave_new_ == <<"b","r","a","v","e"," ","n","e","w"," ">>

HelloCase == diffDone /\ oldContent = HelloWorld /\ newContent = HelloBraveNewWorld

\* C6 as stated: for "hello world" -> "hello brave new world" the prefix is
\* "hello ", the suffix is " world", the added region is "brave new", only
\* "brave new" is wrapped and prefix and suffix are reproduced verbatim.
C6_AsStated ==
    HelloCase =>
        /\ prefix = Str_hello_
        /\ suffix = Str__world
        /\ addedContent = Str_brave_new
        /\ Contains(annotated, <<NL>> \o OpenLine \o <<NL>> \o Str_brave_new \o <<NL>> \o CloseLine \o <<NL>>)
        /\ StartsWith(annotated, Str_hello_)
        /\ EndsWith(annotated, Str__world)

\* C6 amended: the suffix is computed on what remains after the prefix, so
\* it is "world" and the added region is "brave new " (trailing blank); the
\* block wraps the trimmed region "brave new", and the prefix "hello " and
\* the suffix "world" are reproduced verbatim.
C6_HelloExample ==
    HelloCase =>
        /\ prefix = Str_hello_
        /\ suffix = Str_world
        /\ addedContent = Str_brave_new_
        /\ annotated = Str_hello_ \o <<NL, NL>> \o OpenLine \o <<NL>> \o Str_brave_new
                       \o <<NL>> \o CloseLine \o <<NL, NL>> \o Str_world

C6_Witness == HelloCase /\ MarkerInserted

C8_NoAdditionUnchanged ==
    /\ (diffDone /\ ~BlankStr(oldContent) /\ BlankStr(AddedRegion(oldContent, newContent)))
          => annotated = newContent
    /\ (diffDone /\ newContent = oldContent) => annotated = newContent

C8_Witness ==
    /\ diffDone /\ ~BlankStr(oldContent)
    /\ AddedRegion(oldContent, newContent) # <<>>
    /\ BlankStr(AddedRegion(oldContent, newContent))
    /\ annotated = newContent

\* C9: when a marker block is inserted the result has no run of three or
\* more newlines.
C9_NoTripleNewline ==
    MarkerInserted => ~Contains(annotated, <<NL, NL, NL>>)

C9_Witness ==
    MarkerInserted /\ EndsWith(prefix, <<NL, NL>>) /\ ~Contains(annotated, <<NL, NL, NL>>)

\* C10 as stated: exactly one newline separates the opening delimiter line
\* from the prefix text and the closing delimiter line from the suffix text.
C10_AsStated ==
    MarkerInserted =>
        /\ prefix # <<>> => NewlinesBeforeOpen = 1
        /\ suffix # <<>> => NewlinesAfterClose = 1

\* C10 amended: the opening delimiter line is preceded by exactly two
\* newlines (one blank line) when the prefix is not empty and by exactly one
\* when it is empty; the closing delimiter line is followed by exactly two
\* newlines when the suffix is not empty and by exactly one when it is empty.
C10_BlankLineAroundBlock ==
    MarkerInserted =>
        /\ NewlinesBeforeOpen = (IF prefix # <<>> THEN 2 ELSE 1)
        /\ NewlinesAfterClose = (IF suffix # <<>> THEN 2 ELSE 1)
        /\ prefix = <<>> => StartsWith(annotated, <<NL>> \o OpenLine)
        /\ suffix = <<>> => EndsWith(annotated, CloseLine \o <<NL>>)

C10_Witness ==
    MarkerInserted /\ prefix # <<>> /\ suffix # <<>>
    /\ ~BlankStr(prefix) /\ ~BlankStr(suffix)
    /\ prefix[Len(prefix)] # NL /\ Head(suffix) # NL

\* ------------------------------------------------------------------------
\* Properties of useSessionNote
\* ------------------------------------------------------------------------
NoteLoaded == note # NoNote /\ loadPc = "done"

NoteQuiescent == timers = {} /\ writes = <<>>

\* C1 as stated: for a loaded note, when every storage write has succeeded
\* and no debounce timer is pending and no persist is in flight, the
\* persisted content equals the in-memory content.
C1_PersistedCatchesUp ==
    (NoteLoaded /\ ~writeFailed /\ NoteQuiescent) => dbNote = content

\* C2: every burst of updateContent calls (each made while the timer of the
\* previous one is still pending) leads to exactly one saveNote call by a
\* timer, made with the text of the last updateContent call: at most one
\* timer is ever armed, it carries the last text, and every burst is
\* accounted for by one timer that fired, was cancelled by forceSave, or is
\* still pending.
C2_TrailingDebounce ==
    /\ [](/\ Cardinality(timers) <= 1
          /\ \A t \in timers : t.newContent = lastUpdate /\ t.id = saveTimeoutRef
          /\ bursts = debounceCalls + forceCancelled + Cardinality(timers))
    /\ [][debounceCalls' # debounceCalls =>
            /\ debounceCalls' = debounceCalls + 1
            /\ lastDebounced' = lastUpdate
            /\ timers' = {}]_vars

\* three updateContent calls in one burst on a loaded note, the timer has
\* fired once and the write of the last text is in flight
C2_Witness ==
    /\ NoteLoaded
    /\ bursts = 1 /\ nextTimer = 4 /\ immediateCalls = 0
    /\ debounceCalls = 1 /\ timers = {}
    /\ lastDebounced = lastUpdate
    /\ Len(writes) = 1 /\ writes[1].kind = "save" /\ writes[1].content = lastUpdate

\* ------------------------------------------------------------------------
\* Properties of useChat
\* ------------------------------------------------------------------------
IsErrorText(text) ==
    text \in {ChatErrorText("timeout"), ChatErrorText("failed"), ChatErrorText("notOk"),
              SorryText, NoteErrorText}

\* turns of the visible history that were produced by send n
TurnsOfSend(hist, n) == {i \in 1..Len(hist) : hist[i].send = n}

\* C3 as stated: no two turns of the visible history have the same id.
C3_NoDuplicateIds ==
    \A i, j \in 1..Len(messages) : i # j => messages[i].id # messages[j].id

\* C4: the step that ends an accepted send leaves an assistant-role turn of
\* that send in the visible history, whatever failed on the way.
C4_SendEndsWithAssistantTurn ==
    [][(sendPc # "idle" /\ sendPc' = "idle") =>
          \E i \in TurnsOfSend(messages', sendNo) : messages'[i].role = "assistant"]_vars

\* a send has ended whose user turn and whose error turn could not be
\* persisted: the error turn is shown from memory
C4_Witness ==
    /\ sendPc = "idle" /\ sendNo >= 1
    /\ \E i \in TurnsOfSend(messages, sendNo) :
          /\ messages[i].id[1] = "temp"
          /\ messages[i].content = ChatErrorText("timeout")
    /\ \A i \in TurnsOfSend(messages, sendNo) : messages[i].role # "user"
    /\ \A i \in 1..Len(chatDb) : chatDb[i].send # sendNo

\* C5: the step in which the note callback throws adds nothing but the
\* reply turn, which is visible after it, and ends the send; no error turn
\* is added for that send afterwards.
C5_NoteFailureIsolated ==
    /\ [][(noteThrew' /\ ~noteThrew) =>
            /\ \E i \in TurnsOfSend(messages', sendNo) : messages'[i].content = "reply"
            /\ \A i \in TurnsOfSend(messages', sendNo) : ~IsErrorText(messages'[i].content)
            /\ Len(messages') <= Len(messages) + 1
            /\ sendPc' = "idle"]_vars
    /\ [](noteThrew =>
            /\ sendPc = "idle"
            /\ \A i \in TurnsOfSend(messages, sendNo) : ~IsErrorText(messages[i].content)
            /\ \A i \in 1..Len(chatDb) :
                  chatDb[i].send = sendNo => ~IsErrorText(chatDb[i].content))

\* the append callback threw after the reply turn was added, and the reply
\* turn is the assistant turn of the send
C5_Witness ==
    /\ noteThrew /\ noteAction = "append" /\ sendPc = "idle"
    /\ \E i \in TurnsOfSend(messages, sendNo) :
          messages[i].content = "reply" /\ messages[i].role = "assistant"

\* ------------------------------------------------------------------------
\* Properties of the NoteEditor
\* ------------------------------------------------------------------------
HasMarker(text) == Includes(text, OpenLine)

\* a step in which a timer that ran its whole delay calls back
FadeoutRuns == \E t \in fadeTimers : t.left = 0 /\ t \notin fadeTimers'

\* C11: a marked text that is still the current one when its 5-second timer
\* runs out is committed, stripped, through onChange exactly once; a text
\* replaced earlier is never committed; a render with a marked text leaves a
\* single timer with the full delay, a render with an unmarked text leaves none.
C11_AutoExpiry ==
    [][ /\ (FadeoutRuns /\ arrivalNo' = arrivalNo) =>
              /\ Len(commits') = Len(commits) + 1
              /\ commits'[Len(commits')].text = removeAiMarkers(edContent)
        /\ commits' # commits =>
              /\ FadeoutRuns
              /\ SubSeq(commits', 1, Len(commits)) = commits
              /\ Len(commits') = Len(commits) + 1
              /\ commits'[Len(commits')].captured = edContent
              /\ \A i \in 1..Len(commits) :
                    commits[i].arrival # commits'[Len(commits')].arrival
        /\ (arrivalNo' # arrivalNo /\ HasMarker(edContent')) =>
              fadeTimers' = {[id |-> fadeoutTimerRef', content |-> edContent',
                              left |-> FadeoutDelay]}
        /\ ~HasMarker(edContent') => fadeTimers' = {}
      ]_vars

\* a marked text was replaced while its timer was armed, and a later text
\* was committed after its own full delay
C11_Witness ==
    /\ restarts >= 1
    /\ Len(commits) = 1
    /\ commits[1].arrival >= 1
    /\ ~HasMarker(edContent)
    /\ fadeTimers = {}

\* ------------------------------------------------------------------------
\* Properties of useSessionNote (forceSave, append, load)
\* ------------------------------------------------------------------------
\* the write that saveNote issues for a text
SaveWrite(text) == [kind |-> "save", content |-> text]

\* the step that completes the load without a storage error
LoadCompletes == loadPc # "done" /\ loadPc' = "done" /\ ~writeFailed'

C12_ForceSaveFlushes ==
    [][ForceSave =>
          /\ timers' = {}
          /\ (writes' = Append(writes, SaveWrite(content)))
                <=> (content # lastSavedContent)]_vars

\* ------------------------------------------------------------------------
\* Properties of the SummaryPanel (note callbacks of the coordinator)
\* ------------------------------------------------------------------------
\* what append(text) makes of the note text it finds
Appended(held, text) == IF held # <<>> THEN held \o <<NL, NL>> \o text ELSE text

\* C13: every append made by the coordinator sets the note to the text held in
\* memory at the moment of the call, a blank line and the appended text (the
\* appended text alone for an empty note) and issues a persist of that value,
\* manual edits made while the request was in flight included.
C13_AppendKeepsEdits ==
    \A i \in 1..Len(noteCalls) :
        noteCalls[i].kind = "append" =>
            /\ noteCalls[i].set = Appended(noteCalls[i].held, noteCalls[i].arg)
            /\ noteCalls[i].persisted

\* the note calls made by a step
NewNoteCalls == SubSeq(noteCalls', Len(noteCalls) + 1, Len(noteCalls'))

\* a step of the coordinator
CoordinatorStep == (sendPc' # sendPc /\ sendPc' # "unmounted") \/ messages' # messages

\* the step that follows a successful reply of /api/chat
AfterChatReply == CoordinatorStep /\ sendPc = "assistantReturn" /\ after = "noteUpdate"

\* updatedNote is present in the response: it is a string, not null
Present(updatedNote) == updatedNote # NoUpdatedNote

\* C14: after a successful reply of /api/chat at most one note action is
\* taken: replace with markAiAdditions(currentNote, updatedNote) exactly when
\* noteWasModified is true and updatedNote is present, append of the
\* transcript block exactly when noteWasModified is false, nothing when
\* noteWasModified is true and updatedNote is absent; the summarize flow and
\* the error paths leave the note as it is.
C14_OneNoteAction ==
    [][ /\ Len(NewNoteCalls) <= 1
        /\ AfterChatReply =>
              /\ (NewNoteCalls # <<>> /\ NewNoteCalls[1].kind = "replace")
                    <=> (result.noteWasModified /\ Present(result.updatedNote))
              /\ (NewNoteCalls # <<>> /\ NewNoteCalls[1].kind = "replace")
                    => content' = markAiAdditions(sentNote, result.updatedNote)
              /\ (NewNoteCalls # <<>> /\ NewNoteCalls[1].kind = "append")
                    <=> ~result.noteWasModified
              /\ (NewNoteCalls # <<>> /\ NewNoteCalls[1].kind = "append")
                    => NewNoteCalls[1].arg = ChatLog(userMessage, ReplyText)
              /\ (result.noteWasModified /\ ~Present(result.updatedNote))
                    => (NewNoteCalls = <<>> /\ content' = content)
        /\ (CoordinatorStep /\ ~AfterChatReply) =>
              (NewNoteCalls = <<>> /\ content' = content /\ writes' = writes)
      ]_vars

\* ------------------------------------------------------------------------
\* Properties of useChat (routing, empty context, timeout)
\* ------------------------------------------------------------------------
\* the lower-case form of the letters used in the submitted texts
LowerLetter(c) ==
    CASE c = "S" -> "s" [] c = "U" -> "u" [] c = "M" -> "m" [] c = "A" -> "a"
      [] c = "R" -> "r" [] c = "Y" -> "y" [] c = "I" -> "i" [] c = "Z" -> "z"
      [] c = "E" -> "e" [] c = "H" -> "h" [] OTHER -> c

\* the lower-cased text contains summarize, summary or a localized keyword
MentionsKeyword(text) ==
    LET lowered == [i \in 1..Len(text) |-> LowerLetter(text[i])]
    IN  \/ Contains(lowered, <<"s","u","m","m","a","r","i","z","e">>)
        \/ Contains(lowered, <<"s","u","m","m","a","r","y">>)
        \/ Contains(lowered, <<"U+7E3D","U+7D50">>)
        \/ Contains(lowered, <<"U+6458","U+8981">>)
        \/ Contains(lowered, <<"U+6982","U+62EC">>)

\* the current send ran handleSummarizeCommand
RoutedToSummarize == "handleSummarizeCommand" \in apiCalls

\* the current send has been classified
Routed == sendPc \notin {"idle", "unmounted", "saveUser", "userReturn"} \/ apiCalls # {}

\* C15: an accepted send goes to the summarize flow exactly when its
\* lower-cased text contains a keyword; a send in the summarize flow never
\* calls /api/chat and a send outside it never calls /api/summarize.
C15_Routing ==
    Routed =>
        /\ RoutedToSummarize <=> MentionsKeyword(userMessage)
        /\ RoutedToSummarize => "/api/chat" \notin apiCalls
        /\ ~RoutedToSummarize => ("/api/chat" \in apiCalls /\ "/api/summarize" \notin apiCalls)

\* a send with a capitalised keyword went through /api/summarize and ended
C15_Witness ==
    /\ sendPc = "idle"
    /\ userMessage = <<"S","u","m","m","a","r","y">>
    /\ "/api/summarize" \in apiCalls

\* the entities that are not summaries, within the selection when there is one
NonSummarySelected ==
    {e \in entities :
        /\ e.entity_type # "ai-summary"
        /\ (selectedEntityIds = {} \/ e.id \in selectedEntityIds)}

\* the assistant turns of the current send in the visible history
AssistantTurns ==
    {i \in TurnsOfSend(messages, sendNo) : messages[i].role = "assistant"}

\* C16: when the summarize flow runs with no entity that is not a summary
\* (within the selection when one is supplied), the assistant turn is exactly
\* the nothing-to-summarize text, /api/summarize is not called, no summary
\* entity is inserted and the refresh callback is not invoked.
C16_NothingToSummarize ==
    (RoutedToSummarize /\ NonSummarySelected = {}) =>
        /\ apiCalls = {"handleSummarizeCommand"}
        /\ sendPc \in {"saveAssistant", "assistantReturn"} => asstContent = NothingText
        /\ \A i \in AssistantTurns : messages[i].content = NothingText
        /\ sendPc = "idle" => AssistantTurns # {}

\* a summarize command ended with the selection holding only a summary
C16_Witness ==
    /\ sendPc = "idle"
    /\ RoutedToSummarize
    /\ entities = {GenericEntity, SummaryEntity}
    /\ selectedEntityIds = {"e2"}
    /\ \E i \in AssistantTurns : messages[i].content = NothingText

\* the request to /api/chat has been issued and its response is not complete
RequestInFlight == sendPc \in {"awaitChat", "awaitJson", "awaitText"}

\* the error turn of a request that timed out
TimedOutText == "Sorry, I encountered an error: Request timed out. Please try again."

TimedOutTurns == {i \in AssistantTurns : messages[i].content = TimedOutText}
ReplyTurns == {i \in AssistantTurns : messages[i].content = "reply"}

\* C17: a request to /api/chat that has not completed 60 seconds after it was
\* issued is aborted and the send ends with an assistant turn that says the
\* request timed out; no reply turn of that request is added afterwards and
\* isLoading is false again when the send ends.
C17_TimeoutAborts ==
    [][ /\ (RequestInFlight /\ elapsed >= ChatTimeout /\ sendPc' # sendPc) =>
              (sendPc' = "saveAssistant" /\ asstContent' = TimedOutText)
        /\ (asstContent = TimedOutText /\ sendPc = "assistantReturn" /\ sendPc' = "idle") =>
              (TimedOutTurns' # {} /\ ~isLoading')
        /\ TimedOutTurns' # {} => ReplyTurns' = {}
      ]_vars

\* ------------------------------------------------------------------------
\* Properties of renderLines
\* ------------------------------------------------------------------------
\* number of digits before the "." of a numbered item, 0 when it is not one
NumberWidth(t) ==
    IF \E d \in 1..Len(t) :
          /\ \A k \in 1..d : t[k] \in Digits
          /\ Len(t) >= d + 2 /\ t[d + 1] = "." /\ t[d + 2] \in Whitespace
    THEN CHOOSE d \in 1..Len(t) :
          /\ \A k \in 1..d : t[k] \in Digits
          /\ Len(t) >= d + 2 /\ t[d + 1] = "." /\ t[d + 2] \in Whitespace
    ELSE 0

\* kind of a line: "bullet", "numbered", "blank" or "other"
LineKind(line) ==
    LET t == Trim(line)
    IN  IF StartsWith(t, <<"-", SP>>) \/ StartsWith(t, <<"*", SP>>) THEN "bullet"
        ELSE IF NumberWidth(t) > 0 THEN "numbered"
        ELSE IF t = <<>> THEN "blank"
        ELSE "other"

\* text of a list item
LineItem(line) ==
    LET t == Trim(line)
    IN  IF LineKind(line) = "bullet" THEN SubSeq(t, 3, Len(t))
        ELSE TrimStart(SubSeq(t, NumberWidth(t) + 2, Len(t)))

IsListLine(i) == LineKind(targetLines[i]) \in {"bullet", "numbered"}

\* first lines of the maximal runs of list items of one kind
RunStarts ==
    {i \in 1..Len(targetLines) :
        /\ IsListLine(i)
        /\ (i = 1 \/ LineKind(targetLines[i - 1]) # LineKind(targetLines[i]))}

\* last line of the run that starts at line i
RunEnd(i) ==
    CHOOSE j \in i..Len(targetLines) :
        /\ \A k \in i..j : LineKind(targetLines[k]) = LineKind(targetLines[i])
        /\ (j = Len(targetLines) \/ LineKind(targetLines[j + 1]) # LineKind(targetLines[i]))

\* the lines that yield a node: run starts and lines of other blocks
NodeLines == RunStarts \cup {i \in 1..Len(targetLines) : LineKind(targetLines[i]) = "other"}

\* C18: every maximal run of consecutive list-item lines of one kind yields
\* exactly one list node with the items in order, placed among the other
\* nodes where the run stands; a change of kind, a blank line or another line
\* closes the list; "- a", "- b", "1. c" yield a bullet list [a, b] and then a
\* numbered list [c].
C18_ListCoalescing ==
    renderDone =>
        /\ Len(localElements) = Cardinality(NodeLines)
        /\ \A i \in NodeLines :
              LET k == Cardinality({n \in NodeLines : n <= i})
                  node == localElements[k].node
              IN  IF i \in RunStarts
                  THEN /\ node.tag = (IF LineKind(targetLines[i]) = "bullet" THEN "ul" ELSE "ol")
                       /\ node.items = [j \in 1..(RunEnd(i) - i + 1) |->
                                           LineItem(targetLines[i + j - 1])]
                  ELSE node.tag \notin {"ul", "ol"}
        /\ targetLines = << <<"-", SP, "a">>, <<"-", SP, "b">>, <<"1", ".", SP, "c">> >> =>
              localElements =
                 << [wrapped |-> wrapAi, node |-> [tag |-> "ul", items |-> << <<"a">>, <<"b">> >>]],
                    [wrapped |-> wrapAi, node |-> [tag |-> "ol", items |-> << <<"c">> >>]] >>

\* the lines "- a", "- b", "1. c" have been rendered
C18_Witness ==
    /\ renderDone
    /\ targetLines = << <<"-", SP, "a">>, <<"-", SP, "b">>, <<"1", ".", SP, "c">> >>
    /\ Len(localElements) = 2

\* C20: in every reachable state the visible history is ordered by creation
\* timestamp (created_at non-decreasing), whatever the interleaving of the
\* history load, the realtime deliveries of other clients' inserts and the
\* local adds of the user and assistant turns.
C20_HistoryOrdered ==
    \A i \in 1..Len(messages) : \A j \in 1..Len(messages) :
        i < j => messages[i].created_at <= messages[j].created_at

\* the delimiter lines alternate, starting with an opening line and ending
\* with a closing line
RECURSIVE Alternates(_, _)
Alternates(delims, inBlock) ==
    IF delims = <<>> THEN ~inBlock
    ELSE IF Head(delims) = "open" THEN ~inBlock /\ Alternates(Tail(delims), TRUE)
    ELSE inBlock /\ Alternates(Tail(delims), FALSE)

WellFormed(text) == Alternates(DelimitersOf(SplitLines(text)), FALSE)

\* C21: in every reachable note text the annotation blocks are well formed
\* and not nested: opening and closing delimiter lines alternate, starting
\* with an opening line and ending with a closing line, after any sequence of
\* assistant replaces through markAiAdditions, transcript appends and
\* expiry strips.
C21_BlocksWellFormed == WellFormed(noteText)

\* a send is in flight: sendMessage has been entered and has not returned
SendInFlight == sendPc \notin {"idle", "unmounted"}

\* C22: isLoading is true from the moment a send is accepted until the send
\* has added its assistant or error turn and has returned, so that a send
\* entry point which is closed while isLoading is true admits at most one
\* send in flight.
C22_LoadingWhileInFlight == SendInFlight => isLoading

\* assistant-role turns of send n in the visible history
AssistantTurnsOf(n) == {i \in TurnsOfSend(messages, n) : messages[i].role = "assistant"}

\* C29: every accepted send that has ended has added exactly one
\* assistant-role turn to the visible history: the reply or summary turn, or
\* one error turn, on the chat path and on the summarize path.
C29_OneAssistantTurn ==
    \A n \in 1..sendNo :
        (n < sendNo \/ sendPc = "idle") => Cardinality(AssistantTurnsOf(n)) = 1

\* a manual edit: updateContent sets the content and arms a timer
ManualEdit == content' # content /\ nextTimer' = nextTimer + 1

\* C23: in the SummaryPanel forceSave runs only when the panel is torn down:
\* the step of a manual edit leaves the debounce timer armed by that edit in
\* place and writes nothing, so that the edit is persisted by the timer while
\* the panel stays mounted.
C23_EditKeepsItsTimer ==
    [][ManualEdit =>
          /\ \E t \in timers' : t.id = nextTimer /\ t.newContent = content'
          /\ writes' = writes]_vars

\* C24: the last-saved reference holds the empty string, content fetched from
\* storage or content whose write has succeeded: when no write is in flight
\* it is empty or it is the stored content, so that saveNote skips a write
\* only for the content that is stored, after a failed seeding write or a
\* failed save too.
C24_LastSavedIsStored ==
    writes = <<>> => (lastSavedContent = <<>> \/ lastSavedContent = dbNote)

\* lines.join('\n')
RECURSIVE JoinLines(_)
JoinLines(lines) ==
    IF lines = <<>> THEN <<>>
    ELSE IF Len(lines) = 1 THEN Head(lines)
    ELSE Head(lines) \o <<NL>> \o JoinLines(Tail(lines))

\* the lines of a text that are not a delimiter line
RECURSIVE WithoutDelimiterLines(_)
WithoutDelimiterLines(lines) ==
    IF lines = <<>> THEN <<>>
    ELSE (IF Head(lines) \in {OpenLine, CloseLine} THEN <<>> ELSE <<Head(lines)>>)
            \o WithoutDelimiterLines(Tail(lines))

\* a text without its delimiter lines and their line breaks
StripDelimiterLines(text) == JoinLines(WithoutDelimiterLines(SplitLines(text)))

\* C25: the text committed by the auto-expiry is the marked text without the
\* lines that consist of the opening delimiter or of the closing delimiter,
\* and without one line break for each of them; every other character, a ":::"
\* inside a line of text included, is unchanged.
C25_StripsDelimiterLinesOnly ==
    \A i \in 1..Len(commits) :
        commits[i].text = StripDelimiterLines(commits[i].captured)

\* the remote AI endpoint has been called by the current send
EndpointCalled == apiCalls \cap {"/api/chat", "/api/summarize"} # {}

\* C26: when the remote AI endpoint is called for an accepted send, the user
\* turn of that send is in the visible history, also when its insert has
\* failed (the turn is then shown from memory).
C26_UserTurnShownFirst ==
    (SendInFlight /\ EndpointCalled) =>
        \E i \in TurnsOfSend(messages, sendNo) : messages[i].role = "user"

\* ------------------------------------------------------------------------
\* Properties of the MarkdownPreview scan
\* ------------------------------------------------------------------------
IsDelimiterLine(i) ==
    Trim(previewLines[i]) = OpenLine \/ Trim(previewLines[i]) = CloseLine

\* the lines that carry text
TextLines == {i \in 1..Len(previewLines) : ~IsDelimiterLine(i) /\ Trim(previewLines[i]) # <<>>}

\* line i lies after an opening delimiter line with no closing line between
AfterOpening(i) ==
    \E o \in 1..(i - 1) :
        /\ Trim(previewLines[o]) = OpenLine
        /\ \A k \in (o + 1)..(i - 1) : Trim(previewLines[k]) # CloseLine

\* a closing delimiter line follows line i
ClosingFollows(i) == \E c \in (i + 1)..Len(previewLines) : Trim(previewLines[c]) = CloseLine

\* the text shown for a text line
ShownText(line) ==
    IF LineKind(line) = "bullet" THEN LineItem(line) ELSE Trim(line)

\* the texts of the emitted nodes with their wrapper, in the order of the nodes
RECURSIVE ShownItems(_)
ShownItems(rendered) ==
    IF rendered = <<>> THEN <<>>
    ELSE [k \in 1..Len(Head(rendered).node.items) |->
             [text |-> Head(rendered).node.items[k], wrapped |-> Head(rendered).wrapped]]
         \o ShownItems(Tail(rendered))

\* line i lies in a block; with closedOnly, in a block that has its closing line
InBlock(i, closedOnly) == AfterOpening(i) /\ (closedOnly => ClosingFollows(i))

\* the text lines from line i on, in source order, each with its wrapper
RECURSIVE ExpectedFrom(_, _)
ExpectedFrom(i, closedOnly) ==
    IF i > Len(previewLines) THEN <<>>
    ELSE (IF i \in TextLines
          THEN <<[text |-> ShownText(previewLines[i]), wrapped |-> InBlock(i, closedOnly)]>>
          ELSE <<>>) \o ExpectedFrom(i + 1, closedOnly)

\* C30 as stated: a line is rendered inside the wrapper exactly when it lies
\* after an opening delimiter line and before the next closing delimiter
\* line; delimiter lines give no node, no other non-blank line is dropped and
\* the nodes follow the source order.
C30_AsStated ==
    scanDone => ShownItems(previewElements) = ExpectedFrom(1, TRUE)

\* C30: a line is rendered inside the wrapper exactly when it lies after an
\* opening delimiter line with no closing delimiter line between them (the
\* block ends at the next closing line or, without one, at the end of the
\* note); delimiter lines give no node, no other non-blank line is dropped,
\* the nodes follow the source order, and during the scan at most one of the
\* two buffers is non-empty.
C30_WrapperFollowsDelimiters ==
    /\ scanDone => ShownItems(previewElements) = ExpectedFrom(1, FALSE)
    /\ normalBuffer = <<>> \/ aiBuffer = <<>>

\* a note with a paragraph before a block and a list item inside it, the block
\* opened by a padded delimiter line and closed, has been scanned
C30_Witness ==
    /\ scanDone
    /\ previewLines = << <<"p", "a">>, <<SP>> \o OpenLine, <<"-", SP, "c">>, CloseLine >>
    /\ Len(previewElements) = 2
    /\ previewElements[2].wrapped

\* C27: once the history load of the selected session has returned, the
\* visible history holds only turns of the selected session: no history load
\* and no assistant reply of a session selected before puts a turn into it.
C27_HistoryOfSelected ==
    sessionId \notin historyLoads =>
        \A i \in 1..Len(sessionMessages) : sessionMessages[i].session_id = sessionId

\* C28: once the note load of the selected session has returned, the
\* in-memory note holds no text of the note of another session, and the
\* persisted note of a session never holds text of the note of another one.
C28_NoteStaysInSession ==
    /\ sessionId \notin noteLoads =>
           \A t \in Sessions \ {sessionId} : ~Contains(sessionContent, StoredNoteOf(t))
    /\ \A s \in Sessions : \A t \in Sessions \ {s} :
           ~Contains(noteRows[s], StoredNoteOf(t))

\* the second half of C28 alone: what reaches the table
C28_RowsStayInSession ==
    \A s \in Sessions : \A t \in Sessions \ {s} : ~Contains(noteRows[s], StoredNoteOf(t))

====
